---- MODULE Spec2Model ----
(***************************************************************************)
(* A model of the eXist-db language server: the AnalyzedDocument class     *)
(* (regex scanner, symbol and import tables, two-tier resolution of hover, *)
(* definition and completion queries) and the server handlers driving it.  *)
(*                                                                         *)
(* Source texts are sequences of lexical units (a doc comment, a function  *)
(* declaration header up to and including its opening parenthesis, a       *)
(* parenthesis, a comma, white space, a $variable, any other word, an      *)
(* import statement).  Offsets into a text count units instead of          *)
(* characters; they are 0-based as in the source.                          *)
(***************************************************************************)
EXTENDS Integers, Sequences, FiniteSets, Bags, TLC

VARIABLES
    funcDefLastIndex,   \* funcDefRe.lastIndex: the one scan cursor shared by every scan
    text,               \* per document: the text last handed to analyze (NoText: no AnalyzedDocument yet)
    symbolsMap,         \* per document: AnalyzedDocument.symbolsMap, an insertion-ordered map
    localSymbols,       \* per document: AnalyzedDocument.localSymbols
    imports,            \* per document: AnalyzedDocument.imports, an insertion-ordered map
    ast,                \* per document: the text AnalyzedDocument.ast was parsed from (NoAst: no tree)
    diagnostics,        \* per document: AnalyzedDocument.diagnostics, as the parser run leaves it
    lintQueue,          \* lint runs suspended at `await getSettings()`
    pending,            \* the bag of remote calls whose HTTP request or file read is in flight
    last,               \* history: the query that was handled last and what it delivered
    scanned,            \* history: the operation that touched a symbol table or the scan cursor last
    followedUp,         \* history: the documents that ran a definition follow-up re-scan
    edits,              \* the document events (content changes, closes) the run may still make
    queries,            \* the requests and commands the run may still make
    openDocs,           \* the keys of `documents`, the text documents the client has open
    executing,          \* executeQuery calls suspended at `await getSettings()`
    compiling,          \* lint runs whose compile request (serverLint) is in flight
    published,          \* per document: the diagnostics last sent with sendDiagnostics
    startup,            \* sync: the outcome of the initial query's request (Pending: none yet)
    watcher,            \* sync: the chokidar watcher has been created
    files,              \* sync: the watched directory, per path the content (NoFile: none)
    collection,         \* sync: the target collection, per path the content (NoFile: none)
    sent,               \* sync: the requests sent after the initial query, in the order sent
    requests,           \* sync: the indices in sent of the requests in flight
    failed,             \* sync: the indices in sent of the requests that failed
    changes,            \* sync: the changes made to the watched directory so far
    workspaceFolders,   \* client: Workspace.workspaceFolders
    sortedFolders,      \* client: _sortedWorkspaceFolders (Undefined: not computed)
    clients,            \* client: the map `clients`, as the set of its entries
    defaultClient,      \* client: the default client has been created
    running,            \* client: the language clients started and not stopped
    created,            \* client: history, the number of language clients created so far
    opens,              \* client: the documents opened so far
    folderChanges,      \* client: the workspace folder changes so far
    installs,           \* server: the calls of deployXar, each with how far its installXar got
    cursor              \* server: a completion request, its text and offset, and the prefix found

\* the state that the handlers of edits and language queries leave alone
elsewhere == <<executing, compiling, published>>

\* the state of the sync program
syncVars == <<startup, watcher, files, collection, sent, requests, failed, changes>>

\* the state of the extension
clientVars == <<workspaceFolders, sortedFolders, clients, defaultClient, running, created, opens,
                folderChanges>>

\* the state of the programs other than the language server
others == <<syncVars, clientVars, installs, cursor>>

\* the state of the language server
serverVars == <<funcDefLastIndex, text, symbolsMap, localSymbols, imports, ast, diagnostics, lintQueue,
                pending, last, scanned, followedUp, edits, queries, openDocs, executing, compiling,
                published>>

vars == <<serverVars, others>>

----------------------------------------------------------------------------
(* Bounds of the model *)

MaxEdits == 1       \* content changes in a run of Spec
MaxQueries == 1     \* hover, definition and completion requests in a run of Spec
MaxLints == 1       \* lint runs suspended at a time
ScanEdits == 3      \* content changes in a run of ScanSpec
ScanQueries == 1    \* hover, definition and completion requests in a run of ScanSpec
MaxDefs == 2        \* function definitions in a generated source text
MaxImports == 2     \* import statements in a generated source text
EditEdits == 2      \* content changes in a run of EditSpec
EditQueries == 1    \* hover, definition and completion requests in a run of EditSpec
RepeatEdits == 1    \* content changes in a run of RepeatSpec
RepeatQueries == 2  \* hover, definition and completion requests in a run of RepeatSpec
LifeEdits == 2      \* content changes and closes in a run of LifeSpec
LifeQueries == 1    \* commands and requests in a run of LifeSpec
CompileEdits == 2   \* content changes in a run of CompileSpec
OutlineEdits == 2   \* content changes in a run of OutlineSpec
OutlineQueries == 2 \* completion and document symbol requests in a run of OutlineSpec
SyncChanges == 3    \* changes to the watched directory in a run of SyncSpec
ClientOpens == 3    \* documents opened in a run of ClientSpec
FolderChanges == 2  \* workspace folders added or removed in a run of ClientSpec
MaxInstalls == 2    \* deploy commands in a run of InstallSpec
MaxText == 3        \* characters of the text of a completion request in a run of PrefixSpec

----------------------------------------------------------------------------
(* Lexical units *)

Tok(k, v) == [k |-> k, v |-> v, uri |-> "", at |-> ""]
DocTok(v) == Tok("doc", v)
DeclTok(name) == Tok("decl", name)
VarTok(v) == Tok("var", v)
WordTok(v) == Tok("word", v)
ImportTok(prefix, uri, at) == [k |-> "import", v |-> prefix, uri |-> uri, at |-> at]
LP == Tok("lp", "(")
RP == Tok("rp", ")")
COMMA == Tok("comma", ",")
SP == Tok("ws", " ")
NL == Tok("ws", "\n")

\* the characters a unit stands for
Render(t) ==
    CASE t.k = "doc" -> "(:~" \o t.v \o ":)"
      [] t.k = "decl" -> "declare function " \o t.v \o "("
      [] t.k = "import" ->
            "import module namespace " \o t.v \o "=\"" \o t.uri \o "\""
            \o (IF t.at = "" THEN "" ELSE " at \"" \o t.at \o "\"") \o ";"
      [] OTHER -> t.v

RECURSIVE RenderAll(_)
RenderAll(toks) ==
    IF toks = <<>> THEN "" ELSE Render(Head(toks)) \o RenderAll(Tail(toks))

\* String.prototype.substring(a, b): negative bounds count as 0, bounds are swapped if a > b
Substring(txt, a, b) ==
    LET clamp(x) == IF x < 0 THEN 0 ELSE IF x > Len(txt) THEN Len(txt) ELSE x
        lo == IF clamp(a) <= clamp(b) THEN clamp(a) ELSE clamp(b)
        hi == IF clamp(a) <= clamp(b) THEN clamp(b) ELSE clamp(a)
    IN  SubSeq(txt, lo + 1, hi)

----------------------------------------------------------------------------
(* Insertion-ordered maps (the JavaScript Map): sequences of [key, val] *)

MapKeys(m) == {m[i].key : i \in 1..Len(m)}
MapHas(m, k) == k \in MapKeys(m)
MapGet(m, k) == m[CHOOSE i \in 1..Len(m) : m[i].key = k].val
MapSet(m, k, v) ==
    IF MapHas(m, k)
    THEN [i \in 1..Len(m) |-> IF m[i].key = k THEN [key |-> k, val |-> v] ELSE m[i]]
    ELSE Append(m, [key |-> k, val |-> v])
MapValues(m) == [i \in 1..Len(m) |-> m[i].val]

----------------------------------------------------------------------------
(* The scanner *)

\* index of the nearest unit before j that is not white space, -1 if none
RECURSIVE PrevNonWs(_, _)
PrevNonWs(txt, j) ==
    IF j <= 0 THEN -1
    ELSE IF txt[j].k # "ws" THEN j - 1
    ELSE PrevNonWs(txt, j - 1)

\* index of the first unit at or after s that is not white space, Len(txt) if none
RECURSIVE NextNonWs(_, _)
NextNonWs(txt, s) ==
    IF s >= Len(txt) THEN Len(txt)
    ELSE IF txt[s + 1].k # "ws" THEN s
    ELSE NextNonWs(txt, s + 1)

\* funcDefRe tried at start position s: the index of the declaration header that ends
\* the match, or -1.  The optional group (:~ ... :) is lazy and spans any characters, so a
\* match that starts at a doc comment runs to the nearest header that directly follows
\* the end of a doc comment.
MatchAt(txt, s) ==
    LET t == txt[s + 1]
    IN  CASE t.k = "decl" -> s
          [] t.k = "ws" ->
                LET j == NextNonWs(txt, s)
                IN  IF j < Len(txt) /\ txt[j + 1].k = "decl" THEN j ELSE -1
          [] t.k = "doc" ->
                LET js == {j \in (s + 1)..(Len(txt) - 1) :
                              /\ txt[j + 1].k = "decl"
                              /\ PrevNonWs(txt, j) >= s
                              /\ txt[PrevNonWs(txt, j) + 1].k = "doc"}
                IN  IF js = {} THEN -1 ELSE CHOOSE j \in js : \A i \in js : j <= i
          [] OTHER -> -1

NoMatch == [found |-> FALSE, doc |-> "", name |-> "", lastIndex |-> 0]

\* funcDefRe.exec(txt) with funcDefRe.lastIndex = from: the leftmost match at or after
\* from, its groups 1 (doc comment, "" when undefined) and 3 (name), and the new lastIndex;
\* a failed exec resets lastIndex to 0
\* the match that starts at s, ends with the header at j and has its last doc comment at e
MatchGroups(txt, s, j, e) ==
    [found |-> TRUE,
     doc |-> IF txt[s + 1].k # "doc" THEN ""
             ELSE IF e = s THEN txt[s + 1].v
             ELSE txt[s + 1].v \o ":)" \o RenderAll(SubSeq(txt, s + 2, e)) \o "(:~" \o txt[e + 1].v,
     name |-> txt[j + 1].v,
     lastIndex |-> j + 1]

MatchEnding(txt, s, j) == MatchGroups(txt, s, j, PrevNonWs(txt, j))

MatchFrom(txt, s) == MatchEnding(txt, s, MatchAt(txt, s))

Least(S) == CHOOSE x \in S : \A y \in S : x <= y

LeftmostMatch(txt, starts) == IF starts = {} THEN NoMatch ELSE MatchFrom(txt, Least(starts))

ExecFuncDef(txt, from) ==
    IF from > Len(txt) THEN NoMatch
    ELSE LeftmostMatch(txt, {s \in from..(Len(txt) - 1) : MatchAt(txt, s) # -1})

\* findMatchingParen; a declaration header ends with an opening parenthesis
RECURSIVE ParenLoop(_, _, _)
ParenLoop(txt, i, depth) ==
    IF i >= Len(txt) THEN -1
    ELSE IF txt[i + 1].k = "rp"
         THEN IF depth - 1 = 0 THEN i ELSE ParenLoop(txt, i + 1, depth - 1)
    ELSE IF txt[i + 1].k \in {"lp", "decl"} THEN ParenLoop(txt, i + 1, depth + 1)
    ELSE ParenLoop(txt, i + 1, depth)

findMatchingParen(txt, offset) == ParenLoop(txt, offset, 1)

HasComma(toks) == \E i \in 1..Len(toks) : toks[i].k = "comma"

RECURSIVE StripLeadingWs(_)
StripLeadingWs(toks) ==
    IF toks # <<>> /\ Head(toks).k = "ws" THEN StripLeadingWs(Tail(toks)) ELSE toks

RECURSIVE StripTrailingWs(_)
StripTrailingWs(toks) ==
    IF toks # <<>> /\ toks[Len(toks)].k = "ws"
    THEN StripTrailingWs(SubSeq(toks, 1, Len(toks) - 1)) ELSE toks

\* argsStr.split(/\s*,\s*/): every comma separates, with the white space around it
RECURSIVE SplitOnCommas(_)
SplitOnCommas(toks) ==
    IF ~HasComma(toks) THEN <<toks>>
    ELSE LET c == CHOOSE i \in 1..Len(toks) :
                      toks[i].k = "comma" /\ \A h \in 1..(i - 1) : toks[h].k # "comma"
         IN  <<StripTrailingWs(SubSeq(toks, 1, c - 1))>>
             \o SplitOnCommas(StripLeadingWs(SubSeq(toks, c + 1, Len(toks))))

\* the args array as it would be without the test `argsStr !== ''`
SplitArgsKeepingEmpty(argsStr) ==
    IF HasComma(argsStr) THEN SplitOnCommas(argsStr) ELSE <<argsStr>>

\* the args array of getLocalSymbols / getLocalSymbol
SplitArgs(argsStr) ==
    IF HasComma(argsStr) THEN SplitOnCommas(argsStr)
    ELSE IF argsStr # <<>> THEN <<argsStr>>
    ELSE <<>>

\* Array.prototype.toString / join of rendered pieces
RECURSIVE Join(_, _)
Join(strs, sep) ==
    IF strs = <<>> THEN ""
    ELSE IF Len(strs) = 1 THEN strs[1]
    ELSE strs[1] \o sep \o Join(Tail(strs), sep)

\* paramRe.exec(arg): the first `$` followed by non-space characters, "" when no match
RECURSIVE UpToWs(_)
UpToWs(toks) ==
    IF toks = <<>> \/ Head(toks).k = "ws" THEN "" ELSE Render(Head(toks)) \o UpToWs(Tail(toks))

RECURSIVE ExecParam(_)
ExecParam(arg) ==
    IF arg = <<>> THEN ""
    ELSE IF Head(arg).k = "var" THEN UpToWs(arg)
    ELSE ExecParam(Tail(arg))

\* getSnippet
RECURSIVE Templates(_, _)
Templates(args, i) ==
    IF i >= Len(args) THEN <<>>
    ELSE LET param == ExecParam(args[i + 1])
         IN  (IF param # "" THEN <<"${" \o ToString(i + 1) \o ":\\" \o param \o "}">> ELSE <<>>)
             \o Templates(args, i + 1)

getSnippet(name, args) == name \o "(" \o Join(Templates(args, 0), ", ") \o ")"

\* getLine
getLine(txt, offset) ==
    Cardinality({i \in 1..Len(txt) : i <= offset /\ txt[i].v = "\n"})

NoSymbol ==
    [signature |-> "", type |-> "none", name |-> "", snippet |-> "", documentation |-> "",
     hasLocation |-> FALSE, start |-> 0, end |-> 0]

\* the Symbol built for one match (lines 360-397 and 410-438)
BuildSymbol(m, lineCount, offset, end, args, line) ==
    [signature |-> m.name \o "(" \o Join([i \in 1..Len(args) |-> RenderAll(args[i])], ",") \o ")",
     type |-> "function",
     name |-> m.name \o "#" \o ToString(Len(args)),
     snippet |-> getSnippet(m.name, args),
     documentation |-> m.doc,
     hasLocation |-> TRUE,
     start |-> IF lineCount THEN line ELSE offset,
     end |-> IF lineCount THEN line ELSE end]

ParamsSymbol(txt, m, lineCount, end) ==
    BuildSymbol(m, lineCount, m.lastIndex, end, SplitArgs(Substring(txt, m.lastIndex, end)),
                getLine(txt, m.lastIndex))

MakeSymbol(txt, m, lineCount) ==
    ParamsSymbol(txt, m, lineCount, findMatchingParen(txt, m.lastIndex))

\* getLocalSymbols: scans from the shared cursor until exec fails; yields the map and
\* the cursor it leaves behind
RECURSIVE SymbolsLoop(_, _, _, _)
\* map.set(symbol.name, symbol)
SetSymbol(map, symbol) == MapSet(map, symbol.name, symbol)

SymbolsStep(txt, lineCount, map, m) ==
    IF ~m.found THEN [map |-> map, lastIndex |-> m.lastIndex]
    ELSE SymbolsLoop(txt, lineCount, SetSymbol(map, MakeSymbol(txt, m, lineCount)), m.lastIndex)

SymbolsLoop(txt, lineCount, map, from) == SymbolsStep(txt, lineCount, map, ExecFuncDef(txt, from))

getLocalSymbols(txt, lineCount, map, from) == SymbolsLoop(txt, lineCount, map, from)

\* what a scanner with a cursor of its own finds in txt
FreshScan(txt) == getLocalSymbols(txt, FALSE, <<>>, 0).map

\* getLocalSymbol: scans from the shared cursor and returns at the first definition whose
\* name is `name`, leaving the cursor behind that match.  The parameter `arity` is
\* shadowed by the local `arity = args.length` (line 422), so the test
\* `args.length === arity` compares the argument count with itself.
RECURSIVE SymbolLoop(_, _, _, _)
\* one turn of the loop, for the match m and the args of its parameter list
SymbolStep(txt, name, arity, m, args) ==
    IF ~m.found THEN [found |-> FALSE, symbol |-> NoSymbol, lastIndex |-> m.lastIndex]
    ELSE LET shadowingArity == Len(args)
         IN  IF Len(args) = shadowingArity /\ m.name = name
             THEN [found |-> TRUE, symbol |-> MakeSymbol(txt, m, TRUE), lastIndex |-> m.lastIndex]
             ELSE SymbolLoop(txt, name, arity, m.lastIndex)

ArgsAt(txt, offset) == SplitArgs(Substring(txt, offset, findMatchingParen(txt, offset)))

SymbolMatch(txt, name, arity, m) == SymbolStep(txt, name, arity, m, ArgsAt(txt, m.lastIndex))

SymbolLoop(txt, name, arity, from) == SymbolMatch(txt, name, arity, ExecFuncDef(txt, from))

getLocalSymbol(txt, name, arity, from) == SymbolLoop(txt, name, arity, from)

\* the sources of the catalogue that start with "java:" (line 493)
JavaSources == {"java:org.exist.Util"}

\* parseImports: importRe finds every import statement (its loop always runs until exec
\* fails, which resets importRe.lastIndex to 0); moduleRe keeps those with an `at` clause
RECURSIVE ImportsLoop(_, _)
ImportsLoop(txt, map) ==
    IF txt = <<>> THEN map
    ELSE LET t == Head(txt)
         IN  IF t.k = "import" /\ t.at # ""
             THEN ImportsLoop(Tail(txt),
                      MapSet(map, t.v, [prefix |-> t.v, uri |-> t.uri, source |-> t.at,
                                        isJava |-> t.at \in JavaSources]))
             ELSE ImportsLoop(Tail(txt), map)

\* parseImports as it would be if the first declaration of a prefix won
parseImportsFirstWins(txt) ==
    ImportsLoop([i \in 1..Len(txt) |-> txt[Len(txt) + 1 - i]], <<>>)

parseImports(txt) == ImportsLoop(txt, <<>>)

\* resolveImports
RECURSIVE resolveImports(_, _)
resolveImports(imps, includeJava) ==
    IF imps = <<>> THEN [mprefix |-> <<>>, uri |-> <<>>, source |-> <<>>]
    ELSE LET imp == Head(imps)
             rest == resolveImports(Tail(imps), includeJava)
         IN  IF ~imp.isJava \/ includeJava
             THEN [mprefix |-> <<imp.prefix>> \o rest.mprefix,
                   uri |-> <<imp.uri>> \o rest.uri,
                   source |-> (IF imp.source # "" THEN <<imp.source>> ELSE <<>>) \o rest.source]
             ELSE rest

----------------------------------------------------------------------------
(* Call signatures, as AST.getFunctionSignature delivers them.  A name is kept as the
   pieces name.split(':') yields, so that splitting is the inverse of joining. *)

NoSig == [parts |-> <<>>, arity |-> -1]
SigName(sig) == Join(sig.parts, ":")
SigKey(sig) == SigName(sig) \o "#" \o ToString(sig.arity)

\* settings.path, the collection the workspace is synchronised with
SettingsPath == "/db/apps/demo"

\* getRelativePath: the part of the document's URI below the workspace folder, without
\* its last segment; a document in the workspace folder itself has no segment to drop and
\* keeps its file name
getRelativePath(d) == d

\* `${settings.path}/${relPath}`
BasePath(relPath) == SettingsPath \o "/" \o relPath

\* getParameters as it would be if it always searched the whole import table
getParametersWholeTable(imps, sig, relPath) ==
    LET params == resolveImports(MapValues(imps), FALSE)
    IN  [mprefix |-> params.mprefix, uri |-> params.uri, source |-> params.source,
         base |-> BasePath(relPath), signature |-> SigKey(sig), prefix |-> ""]

\* getParameters as it would be if it kept the java imports
getParametersWithJava(imps, sig, relPath) ==
    LET scoped == IF Len(sig.parts) = 2 /\ MapHas(imps, sig.parts[1])
                  THEN <<MapGet(imps, sig.parts[1])>>
                  ELSE MapValues(imps)
        params == resolveImports(scoped, TRUE)
    IN  [mprefix |-> params.mprefix, uri |-> params.uri, source |-> params.source,
         base |-> BasePath(relPath), signature |-> SigKey(sig), prefix |-> ""]

\* getParameters
getParameters(imps, sig, relPath) ==
    LET scoped == IF Len(sig.parts) = 2 /\ MapHas(imps, sig.parts[1])
                  THEN <<MapGet(imps, sig.parts[1])>>
                  ELSE MapValues(imps)
        params == resolveImports(scoped, FALSE)
    IN  [mprefix |-> params.mprefix, uri |-> params.uri, source |-> params.source,
         base |-> BasePath(relPath), signature |-> SigKey(sig), prefix |-> ""]

\* the params of getCompletions (lines 226-230)
completionParameters(imps, prefix, relPath) ==
    LET params == resolveImports(MapValues(imps), FALSE)
    IN  [mprefix |-> params.mprefix, uri |-> params.uri, source |-> params.source,
         base |-> BasePath(relPath), signature |-> "", prefix |-> prefix]

----------------------------------------------------------------------------
(* The catalogue the inputs are drawn from *)

Docs == {"a.xq", "b.xq"}

NoText == <<Tok("absent", "")>>
NoAst == <<Tok("no tree", "")>>

\* import module namespace app="http://app" at "app.xqm";
\* (:~ adds :)
\* declare function local:add($a, $b) {};
TextAdd ==
    <<ImportTok("app", "http://app", "app.xqm"), NL, DocTok(" adds "), NL,
      DeclTok("local:add"), VarTok("$a"), COMMA, SP, VarTok("$b"), RP, SP, WordTok("{};")>>

\* (:~ doc :)
\* declare function f() {};
\* declare function bar($x) {};
TextTwo ==
    <<DocTok(" doc "), NL, DeclTok("f"), RP, SP, WordTok("{};"), NL,
      DeclTok("bar"), VarTok("$x"), RP, SP, WordTok("{};")>>

DocTexts == {<<>>, TextAdd, TextTwo}

\* a module that defines bar#1 after another function, two lines down
ModuleBar ==
    <<DeclTok("first"), RP, SP, WordTok("{};"), NL, NL,
      DeclTok("bar"), VarTok("$x"), RP, SP, WordTok("{};")>>

\* a module without a definition of bar
ModuleOther == <<DeclTok("other"), RP, SP, WordTok("{};")>>

\* a module that defines bar with two parameters only
ModuleOverload == <<DeclTok("bar"), VarTok("$x"), COMMA, SP, VarTok("$y"), RP, SP, WordTok("{};")>>

\* fs.readFile: the content read, or no content when the file is unreadable
FileReads ==
    {[ok |-> FALSE, content |-> <<>>]}
    \cup {[ok |-> TRUE, content |-> c] : c \in {<<>>, ModuleBar, ModuleOther, ModuleOverload}}

----------------------------------------------------------------------------
(* Generated source texts: the inputs of the scanner under SourceSpec *)

\* declare function local:add($a, $b) { $a + $b };
TextLocalAdd ==
    <<DeclTok("local:add"), VarTok("$a"), COMMA, SP, VarTok("$b"), RP, SP, WordTok("{"), SP,
      VarTok("$a"), SP, WordTok("+"), SP, VarTok("$b"), SP, WordTok("};")>>

\* $m as map(xs:string, item()): one parameter whose type holds a comma
MapParam ==
    <<VarTok("$m"), SP, WordTok("as"), SP, WordTok("map"), LP, WordTok("xs:string"), COMMA, SP,
      WordTok("item"), LP, RP, RP>>

\* parameter lists, each a sequence of parameters
ParamLists ==
    {<<>>, <<<<VarTok("$a")>>>>, <<<<VarTok("$a")>>, <<VarTok("$b")>>>>,
     <<<<VarTok("$a")>>, <<VarTok("$b")>>, <<VarTok("$c")>>>>, <<MapParam>>,
     <<<<WordTok("x")>>, <<VarTok("$b")>>>>}

FunctionNames == {"f", "local:add"}

Definitions == [name : FunctionNames, params : ParamLists, doc : {"", " doc "}]

\* the parameters as written between the parentheses, separated by ", "
RECURSIVE ParamSource(_)
ParamSource(params) ==
    IF params = <<>> THEN <<>>
    ELSE IF Len(params) = 1 THEN params[1]
    ELSE params[1] \o <<COMMA, SP>> \o ParamSource(Tail(params))

\* one definition as written, on a line of its own
DefinitionSource(def) ==
    (IF def.doc = "" THEN <<>> ELSE <<DocTok(def.doc), NL>>)
    \o <<DeclTok(def.name)>> \o ParamSource(def.params) \o <<RP, SP, WordTok("{};"), NL>>

RECURSIVE DefinitionsSource(_)
DefinitionsSource(defs) ==
    IF defs = <<>> THEN <<>> ELSE DefinitionSource(Head(defs)) \o DefinitionsSource(Tail(defs))

\* sequences of definitions with pairwise distinct name and number of parameters
DefinitionLists ==
    {defs \in UNION {[1..n -> Definitions] : n \in 1..MaxDefs} :
        \A i, j \in 1..Len(defs) :
            (defs[i].name = defs[j].name /\ Len(defs[i].params) = Len(defs[j].params)) => i = j}

ImportStatements ==
    {ImportTok("x", "uri1", "a.xqm"), ImportTok("x", "uri2", "b.xqm"),
     ImportTok("y", "uri3", ""), ImportTok("j", "uri4", "java:org.exist.Util")}

RECURSIVE ImportsSource(_)
ImportsSource(imps) ==
    IF imps = <<>> THEN <<>> ELSE <<Head(imps), NL>> \o ImportsSource(Tail(imps))

ImportLists == UNION {[1..n -> ImportStatements] : n \in 1..MaxImports}

\* declare function g($a    -- the parameter list is never closed
Unclosed == <<DeclTok("g"), VarTok("$a"), SP, WordTok("{};"), NL>>

\* a definition before or after the unclosed one
MalformedTexts ==
    {DefinitionSource(def) \o Unclosed : def \in Definitions}
    \cup {Unclosed \o DefinitionSource(def) : def \in Definitions}

SourceTexts ==
    {TextLocalAdd} \cup MalformedTexts
    \cup {DefinitionsSource(defs) : defs \in DefinitionLists}
    \cup {ImportsSource(imps) \o <<DeclTok("f"), RP, SP, WordTok("{};")>> : imps \in ImportLists}

----------------------------------------------------------------------------
(* The inputs of the handlers *)

Sigs == {[parts |-> <<"local", "add">>, arity |-> 2], [parts |-> <<"bar">>, arity |-> 1]}
Prefixes == {"", "lo"}

\* calls of functions in a module imported as x, in the java binding j, under a prefix z
\* that is nowhere imported, and without a prefix
ScopeSigs ==
    {[parts |-> <<"x", "run">>, arity |-> 1], [parts |-> <<"j", "now">>, arity |-> 0],
     [parts |-> <<"z", "other">>, arity |-> 0], [parts |-> <<"bar">>, arity |-> 1]}

\* texts that import up to MaxImports modules and define one function
ScopeTexts == {ImportsSource(imps) \o <<DeclTok("f"), RP, SP, WordTok("{};")>> : imps \in ImportLists}

\* Remote items.  A snippet is kept as the pieces between its occurrences of ":$", so
\* that the replacement /\:\$/g of line 244 is a join with another separator.
ItemBar ==
    [text |-> "bar($x)", leftLabel |-> "item()", snippet |-> <<"bar(${1", "x})">>, type |-> "function",
     name |-> "bar#1", description |-> "remote bar", path |-> "/db/apps/lib/bar.xqm"]

ItemAdd ==
    [text |-> "local:add($a, $b)", leftLabel |-> "xs:integer", snippet |-> <<"local:add(${1", "a}, ${2", "b})">>,
     type |-> "function", name |-> "local:add#2", description |-> "", path |-> "/db/apps/lib/add.xqm"]

\* the item of bar#1 after the module's documentation has changed on the server
ItemBarRevised == [ItemBar EXCEPT !.description = "remote bar, revised"]

\* what the request callback receives: (error, response.statusCode, body)
Outcome(error, statusCode, parses, json) ==
    [error |-> error, statusCode |-> statusCode, parses |-> parses, json |-> json]

Outcomes ==
    {Outcome(TRUE, 0, FALSE, <<>>),         \* transport error
     Outcome(FALSE, 500, FALSE, <<>>),      \* non-200 status
     Outcome(FALSE, 200, FALSE, <<>>),      \* 200 with a body JSON.parse rejects
     Outcome(FALSE, 200, TRUE, <<>>),       \* 200 with an empty item list
     Outcome(FALSE, 200, TRUE, <<ItemBar>>),
     Outcome(FALSE, 200, TRUE, <<ItemBarRevised>>),
     Outcome(FALSE, 200, TRUE, <<ItemBar, ItemAdd>>)}

NoOutcome == Outcome(FALSE, 0, FALSE, <<>>)
Failed(o) == o.error \/ o.statusCode # 200

----------------------------------------------------------------------------
(* Results *)

Result(kind, value, uri, start, end, items) ==
    [kind |-> kind, value |-> value, uri |-> uri, start |-> start, end |-> end, items |-> items]
Null == Result("null", "", "", 0, 0, <<>>)
Unsettled == Result("pending", "", "", 0, 0, <<>>)
HoverResult(md) == Result("hover", Join(md, "\n\n"), "", 0, 0, <<>>)
LocationResult(uri, start, end) == Result("location", "", uri, start, end, <<>>)
ItemsResult(items) == Result("items", "", "", 0, 0, items)
ResponseError == Result("responseError", "", "", 0, 0, <<>>)

----------------------------------------------------------------------------
(* AnalyzedDocument: the synchronous part of each query and its callbacks, as functions
   of what they read.  `route` tells what the call does next. *)

\* analyze, lines 75-76: the table is cleared, then filled by a scan from the shared cursor
analyzeSymbols(map, txt, from) == getLocalSymbols(txt, FALSE, <<>>, from)

\* getHover as it would be if it did not consult the symbol table
getHoverSkippingTable(tree, map, sig) ==
    IF tree = NoAst THEN [route |-> "answer", result |-> Null]
    ELSE IF sig = NoSig THEN [route |-> "answer", result |-> Null]
    ELSE [route |-> "remote", result |-> Unsettled]

\* getHover, lines 147-170
getHover(tree, map, sig) ==
    IF tree = NoAst THEN [route |-> "answer", result |-> Null]
    ELSE IF sig = NoSig THEN [route |-> "answer", result |-> Null]
    ELSE IF MapHas(map, SigKey(sig))
         THEN LET symbol == MapGet(map, SigKey(sig))
              IN  [route |-> "answer",
                   result |-> HoverResult(<<"**" \o symbol.signature \o "**">>
                                  \o (IF symbol.documentation # "" THEN <<symbol.documentation>> ELSE <<>>))]
    ELSE [route |-> "remote", result |-> Unsettled]

\* gotoDefinition as it would be if it answered from every entry of the table, with or
\* without a location
gotoDefinitionIgnoringLocation(tree, map, sig, uri) ==
    IF tree = NoAst THEN [route |-> "answer", result |-> Null]
    ELSE IF sig = NoSig THEN [route |-> "answer", result |-> Null]
    ELSE IF MapHas(map, SigKey(sig))
         THEN LET symbol == MapGet(map, SigKey(sig))
              IN  [route |-> "answer", result |-> LocationResult(uri, symbol.start, symbol.end)]
    ELSE [route |-> "remote", result |-> Unsettled]

\* gotoDefinition, lines 81-98; computeLocation turns the offsets into a Range
gotoDefinition(tree, map, sig, uri) ==
    IF tree = NoAst THEN [route |-> "answer", result |-> Null]
    ELSE IF sig = NoSig THEN [route |-> "answer", result |-> Null]
    ELSE IF MapHas(map, SigKey(sig)) /\ MapGet(map, SigKey(sig)).hasLocation
         THEN LET symbol == MapGet(map, SigKey(sig))
              IN  [route |-> "answer", result |-> LocationResult(uri, symbol.start, symbol.end)]
    ELSE [route |-> "remote", result |-> Unsettled]

Effect(status, settled, threw, result) ==
    [status |-> status, settled |-> settled, threw |-> threw, result |-> result]

\* the callback as it would be if it reported the status on failure only
hoverCallbackSilentOnSuccess(o) ==
    IF Failed(o) THEN Effect(<<FALSE>>, TRUE, FALSE, Null)
    ELSE IF ~o.parses THEN Effect(<<>>, FALSE, TRUE, Unsettled)
    ELSE IF Len(o.json) = 0 THEN Effect(<<>>, FALSE, FALSE, Unsettled)
    ELSE Effect(<<>>, TRUE, FALSE,
                HoverResult(<<"**" \o o.json[1].text \o "** as **" \o o.json[1].leftLabel \o "**">>
                    \o (IF o.json[1].description # "" THEN <<o.json[1].description>> ELSE <<>>)))

\* the request callback of getHoverRemote, lines 175-203
hoverCallback(o) ==
    IF Failed(o) THEN Effect(<<FALSE>>, TRUE, FALSE, Null)
    ELSE IF ~o.parses THEN Effect(<<TRUE>>, FALSE, TRUE, Unsettled)
    ELSE IF Len(o.json) = 0 THEN Effect(<<TRUE>>, FALSE, FALSE, Unsettled)
    ELSE LET desc == o.json[1]
         IN  Effect(<<TRUE>>, TRUE, FALSE,
                    HoverResult(<<"**" \o desc.text \o "** as **" \o desc.leftLabel \o "**">>
                        \o (IF desc.description # "" THEN <<desc.description>> ELSE <<>>)))

\* the callback as it would be if it tested `error` alone and not the status code
definitionCallbackIgnoringStatusCode(o) ==
    IF o.error THEN [route |-> "answer", effect |-> Effect(<<FALSE>>, TRUE, FALSE, Null)]
    ELSE IF ~o.parses THEN [route |-> "answer", effect |-> Effect(<<>>, FALSE, TRUE, Unsettled)]
    ELSE IF Len(o.json) = 0 THEN [route |-> "answer", effect |-> Effect(<<>>, FALSE, FALSE, Unsettled)]
    ELSE [route |-> "readFile", effect |-> Effect(<<TRUE>>, FALSE, FALSE, Unsettled)]

\* the request callback of gotoDefinitionRemote, lines 103-143, up to the call of
\* fs.readFile (route "readFile")
definitionCallback(o) ==
    IF Failed(o) THEN [route |-> "answer", effect |-> Effect(<<FALSE>>, TRUE, FALSE, Null)]
    ELSE IF ~o.parses THEN [route |-> "answer", effect |-> Effect(<<>>, FALSE, TRUE, Unsettled)]
    ELSE IF Len(o.json) = 0 THEN [route |-> "answer", effect |-> Effect(<<>>, FALSE, FALSE, Unsettled)]
    ELSE [route |-> "readFile", effect |-> Effect(<<TRUE>>, FALSE, FALSE, Unsettled)]

\* the fs.readFile callback of gotoDefinitionRemote, lines 118-140; `error` in its test
\* is the request's error, which is falsy here
\* lines 124-139: r is what getLocalSymbol delivered
resolveLocation(r, path) ==
    IF r.found /\ r.symbol.hasLocation
    THEN [settled |-> TRUE, scans |-> TRUE, lastIndex |-> r.lastIndex,
          result |-> LocationResult(path, r.symbol.start, r.symbol.end + 1)]
    ELSE [settled |-> FALSE, scans |-> TRUE, lastIndex |-> r.lastIndex, result |-> Unsettled]

readFileCallback(read, sig, path, from) ==
    IF ~read.ok \/ read.content = <<>>
    THEN [settled |-> TRUE, result |-> Null, scans |-> FALSE, lastIndex |-> from]
    ELSE resolveLocation(getLocalSymbol(read.content, SigName(sig), sig.arity, from), path)

\* mapCompletions
mapCompletions(symbols) ==
    [i \in 1..Len(symbols) |->
        [label |-> symbols[i].signature,
         kind |-> IF symbols[i].type = "function" THEN "Function" ELSE "Variable",
         data |-> symbols[i].name,
         insertText |-> symbols[i].snippet,
         detail |-> IF symbols[i].documentation # "" THEN symbols[i].name ELSE "",
         documentation |-> symbols[i].documentation]]

\* TextDocument.positionAt: the offset, brought into the text
positionAt(txt, offset) ==
    IF offset < 0 THEN 0 ELSE IF offset > Len(txt) THEN Len(txt) ELSE offset

\* mapDocumentSymbols, lines 336-348, with computeLocation, lines 350-354
mapDocumentSymbols(symbols, txt, uri) ==
    [i \in 1..Len(symbols) |->
        [name |-> symbols[i].signature,
         kind |-> IF symbols[i].type = "function" THEN "Function" ELSE "Variable",
         uri |-> uri,
         start |-> positionAt(txt, symbols[i].start),
         end |-> positionAt(txt, symbols[i].end)]]

\* getDocumentSymbols as it would be if it listed the values of the symbol table
getDocumentSymbolsFromTable(d) ==
    mapDocumentSymbols(MapValues(symbolsMap[d]), text[d], d)

\* getDocumentSymbols, lines 257-259, of the AnalyzedDocument of d
getDocumentSymbols(d) ==
    mapDocumentSymbols(localSymbols[d], text[d], d)

\* the Symbol made of a remote item, lines 241-247
itemSymbol(item) ==
    [signature |-> item.text, type |-> item.type, name |-> item.name,
     snippet |-> Join(item.snippet, ":\\$"), documentation |-> item.description,
     hasLocation |-> FALSE, start |-> 0, end |-> 0]

\* json.forEach of lines 240-250: every item is stored under its name
RECURSIVE mergeItems(_, _)
mergeItems(map, json) ==
    IF json = <<>> THEN map
    ELSE mergeItems(MapSet(map, Head(json).name, itemSymbol(Head(json))), Tail(json))

\* the callback as it would be if it left out the remote items whose label a local
\* symbol has
completionsCallbackDeduplicating(o, map, locals) ==
    IF Failed(o) THEN [map |-> map, effect |-> Effect(<<FALSE>>, TRUE, FALSE, ResponseError)]
    ELSE IF ~o.parses THEN [map |-> map, effect |-> Effect(<<TRUE>>, FALSE, TRUE, Unsettled)]
    ELSE LET Fresh(item) == \A i \in 1..Len(locals) : locals[i].signature # item.text
             kept == SelectSeq(o.json, Fresh)
         IN  [map |-> mergeItems(map, o.json),
              effect |-> Effect(<<TRUE>>, TRUE, FALSE,
                            ItemsResult(mapCompletions(locals)
                                \o mapCompletions([i \in 1..Len(kept) |-> itemSymbol(kept[i])])))]

\* the callback as it would be if it answered with the remote items alone
completionsCallbackRemoteOnly(o, map, locals) ==
    IF Failed(o) THEN [map |-> map, effect |-> Effect(<<FALSE>>, TRUE, FALSE, ResponseError)]
    ELSE IF ~o.parses THEN [map |-> map, effect |-> Effect(<<TRUE>>, FALSE, TRUE, Unsettled)]
    ELSE [map |-> mergeItems(map, o.json),
          effect |-> Effect(<<TRUE>>, TRUE, FALSE,
                        ItemsResult(mapCompletions([i \in 1..Len(o.json) |-> itemSymbol(o.json[i])])))]

\* the callback as it would be if a failure rejected without a status notification
completionsCallbackRejecting(o, map, locals) ==
    IF Failed(o) THEN [map |-> map, effect |-> Effect(<<>>, FALSE, TRUE, Unsettled)]
    ELSE IF ~o.parses THEN [map |-> map, effect |-> Effect(<<TRUE>>, FALSE, TRUE, Unsettled)]
    ELSE [map |-> mergeItems(map, o.json),
          effect |-> Effect(<<TRUE>>, TRUE, FALSE,
                        ItemsResult(mapCompletions(locals)
                            \o mapCompletions([i \in 1..Len(o.json) |-> itemSymbol(o.json[i])])))]

\* the request callback of getCompletions, lines 232-253
completionsCallback(o, map, locals) ==
    IF Failed(o) THEN [map |-> map, effect |-> Effect(<<FALSE>>, TRUE, FALSE, ResponseError)]
    ELSE IF ~o.parses THEN [map |-> map, effect |-> Effect(<<TRUE>>, FALSE, TRUE, Unsettled)]
    ELSE [map |-> mergeItems(map, o.json),
          effect |-> Effect(<<TRUE>>, TRUE, FALSE,
                        ItemsResult(mapCompletions(locals)
                            \o mapCompletions([i \in 1..Len(o.json) |-> itemSymbol(o.json[i])])))]

\* what the server's autocomplete handler answers for what getCompletions resolved to
\* (server.ts, lines 337-344)
autocomplete(resp) == IF resp.kind = "responseError" THEN ItemsResult(<<>>) ELSE resp

----------------------------------------------------------------------------
(* History records *)

\* op: the query; hit: its key was in the symbol table when it was looked up; roundTrip:
\* a remote request was made, and answered with outcome; status: the notifications the
\* call gave the status callback; settled: its promise is resolved, with result; threw:
\* its callback ended in an exception; reply: what the server handler answers
Last(op, doc, sig, hit, roundTrip, outcome, effect, reply) ==
    [op |-> op, doc |-> doc, sig |-> sig, hit |-> hit, roundTrip |-> roundTrip, outcome |-> outcome,
     status |-> effect.status, settled |-> effect.settled, threw |-> effect.threw,
     result |-> effect.result, reply |-> reply, edited |-> FALSE]

Idle == Last("none", "", NoSig, FALSE, FALSE, NoOutcome, Effect(<<>>, TRUE, FALSE, Null), Null)

\* the operation that touched a symbol table or the scan cursor last
Scanned(op, doc) == [op |-> op, doc |-> doc]

Call(op, doc, sig, hit, prefix, params) ==
    [op |-> op, doc |-> doc, sig |-> sig, hit |-> hit, prefix |-> prefix, phase |-> "request",
     status |-> <<>>, params |-> params, outcome |-> NoOutcome, edited |-> FALSE]

\* history: the calls in flight for document d when an edit changes its text
Edited(calls, d, changed) ==
    LET Mark(c) == IF c.doc = d /\ changed THEN [c EXCEPT !.edited = TRUE] ELSE c
    IN  BagOfAll(Mark, calls)

\* the record of the answer to call c
Answered(c, l) == [l EXCEPT !.edited = c.edited]

\* the key of sig is in map
Hit(tree, map, sig) == tree # NoAst /\ sig # NoSig /\ MapHas(map, SigKey(sig))

Remove(seq, i) == SubSeq(seq, 1, i - 1) \o SubSeq(seq, i + 1, Len(seq))

----------------------------------------------------------------------------
(* The sync program (sync.ts) *)

\* the watched directory: an XQuery file that is there from the start, an XML file and a
\* sub-directory that are not
Paths == {"a.xq", "b.xml", "lib"}
Dirs == {"lib"}
NoFile == 0
Directory == 1

\* mime.getType of the path's extension, with the definitions of lines 9-12
getType(p) == IF p = "a.xq" THEN "application/xquery" ELSE "application/xml"

\* what the server answers to a request of the initial query or of a later one: a
\* transport error (axios also rejects a status outside 2xx), or a status of the 2xx
\* range with a body whose status field may say "error"
SyncOutcome(error, status, dataStatus) == [error |-> error, status |-> status, dataStatus |-> dataStatus]
SyncOutcomes ==
    {SyncOutcome(FALSE, 200, "ok"), SyncOutcome(FALSE, 201, "ok"), SyncOutcome(FALSE, 200, "error"),
     SyncOutcome(FALSE, 204, "ok"), SyncOutcome(TRUE, 0, "")}

\* no answer yet
Pending == SyncOutcome(FALSE, 0, "pending")

\* query as it would be if a status other than 200 and 201 went on to resolve
queryResolvingAnyStatus(o) ==
    IF o.error THEN "rejected" ELSE "resolved"

\* query, lines 67-93: the promise it returns, settled by the outcome of its request; on
\* a status other than 200 and 201 response.data.pipe throws or reject(false) is reached,
\* and the later resolve has no effect
query(o) ==
    IF o.error THEN "rejected"
    ELSE IF ~(o.status = 200 \/ o.status = 201) THEN "rejected"
    ELSE "resolved"

\* the test of line 35: the upload was stored
Stored(o) == ~o.error /\ (o.status = 200 \/ o.status = 201) /\ o.dataStatus # "error"

\* a request of store, remove, createCollection or the chmod query of line 40
Request(kind, path, content, add) == [kind |-> kind, path |-> path, content |-> content, add |-> add]

\* the request is sent
Send(r) ==
    /\ sent' = Append(sent, r)
    /\ requests' = requests \cup {Len(sent) + 1}

\* the program is started: the initial query of line 169 is in flight; the directory and
\* the collection hold the same file
SyncStart ==
    /\ startup = Pending
    /\ watcher = FALSE
    /\ files = [p \in Paths |-> IF p = "a.xq" THEN Directory + 1 ELSE NoFile]
    /\ collection = [p \in Paths |-> IF p = "a.xq" THEN Directory + 1 ELSE NoFile]
    /\ sent = <<>>
    /\ requests = {}
    /\ failed = {}
    /\ changes = 0

\* lines 169-175: the initial query settles; watch (lines 102-138) is called when it
\* resolved
StartupResponse(o) ==
    /\ startup = Pending
    /\ startup' = o
    /\ watcher' = (query(o) = "resolved")
    /\ UNCHANGED <<files, collection, sent, requests, failed, changes>>
    /\ UNCHANGED <<serverVars, clientVars, installs, cursor>>

\* the content written by the next change
NextContent == Directory + 2 + changes

\* a file is written: chokidar emits `add` for a new file and `change` for one it knows,
\* and the handlers of lines 120-125 call store, which sends the file as it is
WriteFile(p) ==
    /\ p \in Paths \ Dirs
    /\ changes < SyncChanges
    /\ changes' = changes + 1
    /\ files' = [files EXCEPT ![p] = NextContent]
    /\ IF watcher THEN Send(Request("store", p, NextContent, files[p] = NoFile))
       ELSE UNCHANGED <<sent, requests>>
    /\ UNCHANGED <<startup, watcher, collection, failed>>
    /\ UNCHANGED <<serverVars, clientVars, installs, cursor>>

\* a file or directory is removed: `unlink` or `unlinkDir`, and remove (lines 47-65)
Unlink(p) ==
    /\ files[p] # NoFile
    /\ changes < SyncChanges
    /\ changes' = changes + 1
    /\ files' = [files EXCEPT ![p] = NoFile]
    /\ IF watcher THEN Send(Request("remove", p, NoFile, FALSE))
       ELSE UNCHANGED <<sent, requests>>
    /\ UNCHANGED <<startup, watcher, collection, failed>>
    /\ UNCHANGED <<serverVars, clientVars, installs, cursor>>

\* a directory is made: `addDir`, and createCollection (lines 95-100)
AddDir(p) ==
    /\ p \in Dirs
    /\ files[p] = NoFile
    /\ changes < SyncChanges
    /\ changes' = changes + 1
    /\ files' = [files EXCEPT ![p] = Directory]
    /\ IF watcher THEN Send(Request("createCollection", p, Directory, FALSE))
       ELSE UNCHANGED <<sent, requests>>
    /\ UNCHANGED <<startup, watcher, collection, failed>>
    /\ UNCHANGED <<serverVars, clientVars, installs, cursor>>

\* what the database holds under the path of request r once it has carried it out
Applied(r) ==
    IF r.kind = "chmod" THEN collection
    ELSE [collection EXCEPT ![r.path] = r.content]

\* the request with index i reaches the server and is answered with outcome o; the
\* callback of store (lines 34-44) sends the chmod query for a new XQuery file
Respond(i, o) ==
    /\ i \in requests
    /\ collection' = IF Stored(o) THEN Applied(sent[i]) ELSE collection
    /\ failed' = IF Stored(o) THEN failed ELSE failed \cup {i}
    /\ IF Stored(o) /\ sent[i].kind = "store" /\ sent[i].add
          /\ getType(sent[i].path) = "application/xquery"
       THEN /\ sent' = Append(sent, Request("chmod", sent[i].path, NoFile, FALSE))
            /\ requests' = (requests \ {i}) \cup {Len(sent) + 1}
       ELSE /\ requests' = requests \ {i}
            /\ UNCHANGED sent
    /\ UNCHANGED <<startup, watcher, files, changes>>
    /\ UNCHANGED <<serverVars, clientVars, installs, cursor>>

SyncNext ==
    \/ \E o \in SyncOutcomes : StartupResponse(o)
    \/ \E p \in Paths : WriteFile(p)
    \/ \E p \in Paths : Unlink(p)
    \/ \E p \in Paths : AddDir(p)
    \/ \E i \in requests, o \in SyncOutcomes : Respond(i, o)

----------------------------------------------------------------------------
(* The extension (extension.ts): one language client per workspace folder *)

\* folders and the directories of documents, as their path segments
Folders == {<<"a">>, <<"a", "b">>, <<"c">>}
DocDirs == Folders \cup {<<"d">>}
NoFolder == <<>>
Undefined == <<<<>>>>

\* uri.startsWith(element), both with a trailing slash
StartsWith(uri, element) ==
    Len(element) <= Len(uri) /\ SubSeq(uri, 1, Len(element)) = element

\* sort by length, lines 180-184
RECURSIVE SortByLength(_)
SortByLength(S) ==
    IF S = {} THEN <<>>
    ELSE LET first == CHOOSE f \in S : \A g \in S : Len(f) <= Len(g)
         IN  <<first>> \o SortByLength(S \ {first})

\* sortedWorkspaceFolders, lines 172-187: the cached list, computed when there is none
sortedWorkspaceFolders ==
    IF sortedFolders = Undefined THEN SortByLength(workspaceFolders) ELSE sortedFolders

\* Workspace.getWorkspaceFolder: the innermost workspace folder that holds the directory
getWorkspaceFolder(dir) ==
    LET holding == {f \in workspaceFolders : StartsWith(dir, f)}
    IN  IF holding = {} THEN NoFolder
        ELSE CHOOSE f \in holding : \A g \in holding : Len(g) <= Len(f)

\* getOuterMostWorkspaceFolder, lines 190-202: the first folder of the sorted list that
\* the given folder starts with
getOuterMostWorkspaceFolder(folder, sorted) ==
    LET found == {i \in 1..Len(sorted) : StartsWith(folder, sorted[i])}
    IN  IF found = {} THEN folder
        ELSE sorted[CHOOSE i \in found : \A j \in found : i <= j]

Languages == {"xquery", "xml"}
Schemes == {"file", "untitled", "git"}

\* a language client, known by the folder it was created for and its number
LanguageClient(key, n) == [key |-> key, n |-> n]

\* the extension is activated in a workspace of the given folders with no document open
ClientStart(folders) ==
    /\ workspaceFolders = folders
    /\ sortedFolders = Undefined
    /\ clients = {}
    /\ defaultClient = FALSE
    /\ running = {}
    /\ created = 0
    /\ opens = 0
    /\ folderChanges = 0

\* didOpenTextDocument, lines 226-301
DidOpenTextDocument(dir, languageId, scheme) ==
    /\ opens < ClientOpens
    /\ opens' = opens + 1
    /\ IF languageId # "xquery" \/ (scheme # "file" /\ scheme # "untitled")
       THEN UNCHANGED <<sortedFolders, clients, defaultClient, running, created>>
       ELSE IF getWorkspaceFolder(dir) = NoFolder \/ scheme = "untitled"
       THEN /\ defaultClient' = TRUE
            /\ running' = IF defaultClient THEN running
                           ELSE running \cup {LanguageClient(NoFolder, created + 1)}
            /\ created' = IF defaultClient THEN created ELSE created + 1
            /\ UNCHANGED <<sortedFolders, clients>>
       ELSE LET folder == getOuterMostWorkspaceFolder(getWorkspaceFolder(dir), sortedWorkspaceFolders)
                client == LanguageClient(folder, created + 1)
            IN  /\ sortedFolders' = sortedWorkspaceFolders
                /\ IF \E c \in clients : c.key = folder
                   THEN UNCHANGED <<clients, running, created>>
                   ELSE /\ clients' = clients \cup {client}
                        /\ running' = running \cup {client}
                        /\ created' = created + 1
                /\ UNCHANGED defaultClient
    /\ UNCHANGED <<workspaceFolders, folderChanges>>
    /\ UNCHANGED <<serverVars, syncVars, installs, cursor>>

\* a folder is added to the workspace: the listener of line 188 drops the sorted list,
\* the listener of lines 307-315 finds nothing removed
AddFolder(f) ==
    /\ f \notin workspaceFolders
    /\ folderChanges < FolderChanges
    /\ folderChanges' = folderChanges + 1
    /\ workspaceFolders' = workspaceFolders \cup {f}
    /\ sortedFolders' = Undefined
    /\ UNCHANGED <<clients, defaultClient, running, created, opens>>
    /\ UNCHANGED <<serverVars, syncVars, installs, cursor>>

\* a folder is removed from the workspace: the listener of line 188 drops the sorted
\* list, the listener of lines 307-315 deletes and stops the client of the folder
RemoveFolder(f) ==
    /\ f \in workspaceFolders
    /\ folderChanges < FolderChanges
    /\ folderChanges' = folderChanges + 1
    /\ workspaceFolders' = workspaceFolders \ {f}
    /\ sortedFolders' = Undefined
    /\ clients' = {c \in clients : c.key # f}
    /\ running' = running \ {c \in clients : c.key = f}
    /\ UNCHANGED <<defaultClient, created, opens>>
    /\ UNCHANGED <<serverVars, syncVars, installs, cursor>>

ClientNext ==
    \/ \E dir \in DocDirs, languageId \in Languages, scheme \in Schemes :
          DidOpenTextDocument(dir, languageId, scheme)
    \/ \E f \in Folders : AddFolder(f)
    \/ \E f \in Folders : RemoveFolder(f)

----------------------------------------------------------------------------
(* The completion prefix (server.ts, autocomplete) *)

\* the characters of a text, as their char codes: $ / 0 9 : @ A z
CharCodes == {36, 47, 48, 57, 58, 64, 65, 122}

\* the texts of up to n characters
RECURSIVE TextsUpTo(_)
TextsUpTo(n) ==
    IF n = 0 THEN {<<>>}
    ELSE TextsUpTo(n - 1) \cup {Append(t, c) : t \in {u \in TextsUpTo(n - 1) : Len(u) = n - 1}, c \in CharCodes}

\* text.charCodeAt(i) and text.substring(start, end), with 0-based offsets
charCodeAt(txt, i) == txt[i + 1]
substring(txt, start, end) == SubSeq(txt, start + 1, end)

\* the test of lines 326-330
PrefixChar(code) ==
    \/ code > 47 /\ code < 58
    \/ code > 64 /\ code < 91
    \/ code > 96 /\ code < 123
    \/ code = 58
    \/ code = 36

\* the loop of lines 324-335: `for (let i = offset - 1; i > 0; i--)`
RECURSIVE prefixStart(_, _, _)
prefixStart(txt, i, start) ==
    IF i > 0 /\ PrefixChar(charCodeAt(txt, i)) THEN prefixStart(txt, i - 1, start - 1) ELSE start

\* the prefix handed to getCompletions, lines 322-336
completionPrefix(txt, offset) == substring(txt, prefixStart(txt, offset - 1, offset), offset)

\* a completion request: its text, the offset of the cursor, the prefix found
Cursor(txt, offset, prefix, done) == [text |-> txt, offset |-> offset, prefix |-> prefix, done |-> done]

\* no completion request
NoCursor == Cursor(<<>>, 0, <<>>, FALSE)

CursorStart == cursor = NoCursor

\* connection.onCompletion -> autocomplete, as far as the prefix goes
OnCompletion ==
    /\ ~cursor.done
    /\ cursor' = Cursor(cursor.text, cursor.offset, completionPrefix(cursor.text, cursor.offset), TRUE)
    /\ UNCHANGED <<serverVars, syncVars, clientVars, installs>>

PrefixNext == OnCompletion

----------------------------------------------------------------------------
(* Installing the helper package (utils.ts, installXar) *)

\* what the database answers to the upload or to the query: a transport error, or a
\* status and a body that is empty or not
InstallOutcome(error, statusCode, body) == [error |-> error, statusCode |-> statusCode, body |-> body]
InstallOutcomes ==
    {InstallOutcome(TRUE, 0, FALSE), InstallOutcome(FALSE, 201, TRUE), InstallOutcome(FALSE, 200, TRUE),
     InstallOutcome(FALSE, 200, FALSE), InstallOutcome(FALSE, 401, TRUE)}
Unanswered == InstallOutcome(FALSE, 0, FALSE)

\* the test of line 151
UploadFailed(o) == o.error \/ o.statusCode # 201

\* query, lines 205-232: the promise it returns, settled by the outcome of its request
queryPromise(o) ==
    IF o.error \/ ~(o.statusCode = 200 \/ o.statusCode = 201) THEN "rejected"
    ELSE IF o.body THEN "resolved" ELSE "resolved empty"

\* a promise settles once
Settle(promise, as) == IF promise = "pending" THEN as ELSE promise

\* one call of deployXar: the upload and its answer, whether the install-and-deploy
\* query was sent and its answer, the promise of installXar
Install(upload, querySent, answer, promise) ==
    [upload |-> upload, sent |-> querySent, answer |-> answer, promise |-> promise]

InstallStart == installs = <<>>

\* deployXar (server.ts, lines 201-227) calls installXar (lines 126-149): without settings
\* it returns true, otherwise the package is put to the database
DeployXar(hasSettings) ==
    /\ Len(installs) < MaxInstalls
    /\ installs' = Append(installs,
                       IF hasSettings THEN Install(Unanswered, FALSE, Unanswered, "pending")
                       ELSE Install(Unanswered, FALSE, Unanswered, "resolved"))
    /\ UNCHANGED <<serverVars, syncVars, clientVars, cursor>>

\* the callback of the upload, lines 150-199: on failure the promise is rejected; the
\* callback goes on, builds the query and sends it
UploadResponse(i, o) ==
    /\ i \in 1..Len(installs)
    /\ installs[i].promise = "pending"
    /\ installs[i].upload = Unanswered
    /\ installs' = [installs EXCEPT ![i] =
                       Install(o, TRUE, Unanswered,
                               IF UploadFailed(o) THEN "rejected" ELSE "pending")]
    /\ UNCHANGED <<serverVars, syncVars, clientVars, cursor>>

\* the query is answered, line 198: query(...).then(resolve).catch(reject)
QueryResponse(i, o) ==
    /\ i \in 1..Len(installs)
    /\ installs[i].sent
    /\ installs[i].answer = Unanswered
    /\ installs' = [installs EXCEPT ![i] =
                       Install(installs[i].upload, TRUE, o,
                               Settle(installs[i].promise, queryPromise(o)))]
    /\ UNCHANGED <<serverVars, syncVars, clientVars, cursor>>

InstallNext ==
    \/ \E hasSettings \in BOOLEAN : DeployXar(hasSettings)
    \/ \E i \in 1..MaxInstalls, o \in InstallOutcomes : UploadResponse(i, o)
    \/ \E i \in 1..MaxInstalls, o \in InstallOutcomes : QueryResponse(i, o)

----------------------------------------------------------------------------
(* The state machine *)

\* the programs other than the language server, as they start
OthersStart == SyncStart /\ ClientStart({}) /\ InstallStart /\ CursorStart

ServerStart(maxEdits, maxQueries) ==
    /\ funcDefLastIndex = 0
    /\ text = [d \in Docs |-> NoText]
    /\ symbolsMap = [d \in Docs |-> <<>>]
    /\ localSymbols = [d \in Docs |-> <<>>]
    /\ imports = [d \in Docs |-> <<>>]
    /\ ast = [d \in Docs |-> NoAst]
    /\ diagnostics = [d \in Docs |-> <<>>]
    /\ lintQueue = <<>>
    /\ pending = EmptyBag
    /\ last = Idle
    /\ scanned = Scanned("none", "")
    /\ followedUp = {}
    /\ edits = maxEdits
    /\ queries = maxQueries
    /\ openDocs = {}
    /\ executing = {}
    /\ compiling = EmptyBag
    /\ published = [d \in Docs |-> <<>>]

\* the language server as it starts, the other programs not in use
Start(maxEdits, maxQueries) == ServerStart(maxEdits, maxQueries) /\ OthersStart

Init == Start(MaxEdits, MaxQueries)

ScanInit == Start(ScanEdits, ScanQueries)

\* analyze as it would be if the symbol table were shared by the documents
analyzeSharedTable(d, t, r) ==
    /\ funcDefLastIndex' = r.lastIndex
    /\ symbolsMap' = [b \in Docs |-> r.map]
    /\ localSymbols' = [localSymbols EXCEPT ![d] = MapValues(r.map)]
    /\ imports' = [imports EXCEPT ![d] = parseImports(t)]
    /\ scanned' = Scanned("analyze", d)

\* analyze, lines 74-79, where r is what getLocalSymbols delivered
analyze(d, t, r) ==
    /\ funcDefLastIndex' = r.lastIndex
    /\ symbolsMap' = [symbolsMap EXCEPT ![d] = r.map]
    /\ localSymbols' = [localSymbols EXCEPT ![d] = MapValues(r.map)]
    /\ imports' = [imports EXCEPT ![d] = parseImports(t)]
    /\ scanned' = Scanned("analyze", d)

\* documents.onDidChangeContent -> lint (server.ts, lines 249-252 and 286-296), up to
\* `await getSettings()`: the AnalyzedDocument is constructed (its constructor calls
\* analyze for a non-empty text) or, if there is one, analyze(text) is called on it
Lint(d, t) ==
    /\ Len(lintQueue) < MaxLints
    /\ edits > 0
    /\ edits' = edits - 1
    /\ text' = [text EXCEPT ![d] = t]
    /\ IF text[d] = NoText /\ t = <<>>
       THEN UNCHANGED <<funcDefLastIndex, symbolsMap, localSymbols, imports, scanned>>
       ELSE analyze(d, t, analyzeSymbols(symbolsMap[d], t, funcDefLastIndex))
    /\ lintQueue' = Append(lintQueue, [doc |-> d, text |-> t, detached |-> FALSE])
    /\ pending' = Edited(pending, d, t # text[d])
    /\ last' = Idle
    /\ openDocs' = openDocs \cup {d}
    /\ UNCHANGED <<ast, diagnostics, followedUp, queries>>
    /\ UNCHANGED elsewhere
    /\ UNCHANGED others

\* a parser warning and a compile error, each computed from the text t
Warning(t) == [severity |-> "Warning", text |-> t]
CompileError(t) == [severity |-> "Error", text |-> t]

\* lintDocument up to the call of serverLint (lines 12-22 of the linting module): it
\* empties the diagnostics and returns at once for an empty text; otherwise xqlint sets
\* document.ast to what the parser delivers and the diagnostics to its warnings, unless
\* the parser throws, which is ignored.  A detached run holds an AnalyzedDocument that
\* was removed from analyzedDocuments: what it writes is seen by nobody.
lintDocument(run, parse) ==
    IF run.detached THEN UNCHANGED <<ast, diagnostics>>
    ELSE /\ ast' = IF run.text = <<>> \/ parse = "throws" THEN ast
                   ELSE IF parse = "nothing" THEN [ast EXCEPT ![run.doc] = NoAst]
                   ELSE [ast EXCEPT ![run.doc] = run.text]
         /\ diagnostics' = [diagnostics EXCEPT ![run.doc] =
                               IF run.text # <<>> /\ parse = "warnings"
                               THEN <<Warning(run.text)>> ELSE <<>>]

\* lint resumed after `await getSettings()`, as far as the AnalyzedDocument goes
LintParse(i, parse) ==
    /\ i \in 1..Len(lintQueue)
    /\ lintDocument(lintQueue[i], parse)
    /\ lintQueue' = Remove(lintQueue, i)
    /\ last' = Idle
    /\ UNCHANGED <<funcDefLastIndex, text, symbolsMap, localSymbols, imports, pending,
                   scanned, followedUp, edits, queries>>
    /\ UNCHANGED <<openDocs, executing, compiling, published>>
    /\ UNCHANGED others

\* lint resumed after `await getSettings()`, with what it sends: for an empty text
\* lintDocument resolves at once and lint publishes the diagnostics; otherwise serverLint
\* puts the text to the compile service and lint waits for the response
LintRequest(i, parse) ==
    /\ i \in 1..Len(lintQueue)
    /\ lintDocument(lintQueue[i], parse)
    /\ IF lintQueue[i].text = <<>>
       THEN /\ published' = [published EXCEPT ![lintQueue[i].doc] = <<>>]
            /\ UNCHANGED compiling
       ELSE /\ compiling' = compiling (+) SetToBag({lintQueue[i]})
            /\ UNCHANGED published
    /\ lintQueue' = Remove(lintQueue, i)
    /\ last' = Idle
    /\ UNCHANGED <<funcDefLastIndex, text, symbolsMap, localSymbols, imports, pending,
                   scanned, followedUp, edits, queries, openDocs, executing>>
    /\ UNCHANGED others

\* what the compile service answers: the request fails or has a status other than 200;
\* the text compiles; it does not, and the error names a line after the first; it does
\* not, and parseErrorMessage yields line 0, which `!error.line` takes for no line
CompileOutcomes == {"failed", "pass", "error", "errorLineZero"}

\* the response of the compile service arrives (serverLint, lines 37-63): a compile error
\* is pushed onto document.diagnostics as it is then; lint resumes and publishes
\* document.diagnostics (server.ts, line 303)
CompileResponse(run, outcome) ==
    /\ BagIn(run, compiling)
    /\ ~run.detached
    /\ compiling' = compiling (-) SetToBag({run})
    /\ diagnostics' = [diagnostics EXCEPT ![run.doc] =
                          IF outcome = "error" THEN Append(@, CompileError(run.text)) ELSE @]
    /\ published' = [published EXCEPT ![run.doc] = diagnostics'[run.doc]]
    /\ last' = Idle
    /\ UNCHANGED <<funcDefLastIndex, text, symbolsMap, localSymbols, imports, ast, lintQueue, pending,
                   scanned, followedUp, edits, queries, openDocs, executing>>
    /\ UNCHANGED others

\* documents.onDidClose (server.ts, lines 92-96): the AnalyzedDocument of the URI is
\* removed from analyzedDocuments; the lint runs suspended for it keep the removed object.
\* A close while a compile request of the document is in flight is not modelled.
Close(d) ==
    /\ d \in openDocs
    /\ \A run \in BagToSet(compiling) : run.doc # d
    /\ edits > 0
    /\ edits' = edits - 1
    /\ openDocs' = openDocs \ {d}
    /\ text' = [text EXCEPT ![d] = NoText]
    /\ symbolsMap' = [symbolsMap EXCEPT ![d] = <<>>]
    /\ localSymbols' = [localSymbols EXCEPT ![d] = <<>>]
    /\ imports' = [imports EXCEPT ![d] = <<>>]
    /\ ast' = [ast EXCEPT ![d] = NoAst]
    /\ diagnostics' = [diagnostics EXCEPT ![d] = <<>>]
    /\ lintQueue' = [i \in 1..Len(lintQueue) |->
                         IF lintQueue[i].doc = d THEN [lintQueue[i] EXCEPT !.detached = TRUE]
                         ELSE lintQueue[i]]
    /\ last' = Idle
    /\ UNCHANGED <<funcDefLastIndex, pending, scanned, followedUp, queries, executing, compiling, published>>
    /\ UNCHANGED others

\* connection.onExecuteCommand, command `execute` (server.ts, lines 254-273): executeQuery
\* is called with the URI and the text the client sends, and waits for the settings
ExecuteCommand(d, t) ==
    /\ queries > 0
    /\ queries' = queries - 1
    /\ executing' = executing \cup {[doc |-> d, text |-> t]}
    /\ last' = Idle
    /\ UNCHANGED <<funcDefLastIndex, text, symbolsMap, localSymbols, imports, ast, diagnostics, lintQueue,
                   pending, scanned, followedUp, edits, openDocs, compiling, published>>
    /\ UNCHANGED others

\* executeQuery resumed (server.ts, lines 275-281): the AnalyzedDocument of the URI is
\* looked up and, if there is none, constructed from the text of the command and stored;
\* the constructor analyzes a non-empty text.  The query is then sent.
ExecuteResume(e) ==
    /\ e \in executing
    /\ executing' = executing \ {e}
    /\ IF text[e.doc] # NoText
       THEN UNCHANGED <<funcDefLastIndex, text, symbolsMap, localSymbols, imports, scanned>>
       ELSE /\ text' = [text EXCEPT ![e.doc] = e.text]
            /\ IF e.text = <<>>
               THEN UNCHANGED <<funcDefLastIndex, symbolsMap, localSymbols, imports, scanned>>
               ELSE analyze(e.doc, e.text, analyzeSymbols(symbolsMap[e.doc], e.text, funcDefLastIndex))
    /\ last' = Idle
    /\ UNCHANGED <<ast, diagnostics, lintQueue, pending, followedUp, edits, queries, openDocs,
                   compiling, published>>
    /\ UNCHANGED others

\* connection.onHover -> hover (server.ts, lines 365-374) -> getHover
GetHover(d, sig) ==
    /\ d \in openDocs
    /\ queries > 0
    /\ queries' = queries - 1
    /\ LET h == getHover(ast[d], symbolsMap[d], sig)
       IN  IF h.route = "answer"
           THEN /\ last' = Last("hover", d, sig, Hit(ast[d], symbolsMap[d], sig), FALSE, NoOutcome,
                                Effect(<<>>, TRUE, FALSE, h.result), h.result)
                /\ UNCHANGED pending
           ELSE /\ pending' = pending (+) SetToBag({
                                  Call("hover", d, sig, Hit(ast[d], symbolsMap[d], sig), "",
                                       getParameters(imports[d], sig, getRelativePath(d)))})
                /\ last' = Idle
    /\ UNCHANGED <<funcDefLastIndex, text, symbolsMap, localSymbols, imports, ast, diagnostics, lintQueue,
                   scanned, followedUp, edits>>
    /\ UNCHANGED <<openDocs, executing, compiling, published>>
    /\ UNCHANGED others

\* the response to a hover request arrives
HoverResponse(c, o) ==
    /\ BagIn(c, pending)
    /\ c.op = "hover"
    /\ last' = Answered(c, Last("hover", c.doc, c.sig, c.hit, TRUE, o, hoverCallback(o),
                                hoverCallback(o).result))
    /\ pending' = pending (-) SetToBag({c})
    /\ UNCHANGED <<funcDefLastIndex, text, symbolsMap, localSymbols, imports, ast, diagnostics, lintQueue,
                   scanned, followedUp, edits, queries>>
    /\ UNCHANGED <<openDocs, executing, compiling, published>>
    /\ UNCHANGED others

\* connection.onDefinition -> gotoDefinition (server.ts, lines 380-389) -> gotoDefinition
GotoDefinition(d, sig) ==
    /\ d \in openDocs
    /\ queries > 0
    /\ queries' = queries - 1
    /\ LET g == gotoDefinition(ast[d], symbolsMap[d], sig, d)
       IN  IF g.route = "answer"
           THEN /\ last' = Last("definition", d, sig, Hit(ast[d], symbolsMap[d], sig), FALSE, NoOutcome,
                                Effect(<<>>, TRUE, FALSE, g.result), g.result)
                /\ UNCHANGED pending
           ELSE /\ pending' = pending (+) SetToBag({
                                  Call("definition", d, sig, Hit(ast[d], symbolsMap[d], sig), "",
                                       getParameters(imports[d], sig, getRelativePath(d)))})
                /\ last' = Idle
    /\ UNCHANGED <<funcDefLastIndex, text, symbolsMap, localSymbols, imports, ast, diagnostics, lintQueue,
                   scanned, followedUp, edits>>
    /\ UNCHANGED <<openDocs, executing, compiling, published>>
    /\ UNCHANGED others

\* the response to a definition request arrives
DefinitionResponse(c, o) ==
    /\ BagIn(c, pending)
    /\ c.op = "definition"
    /\ c.phase = "request"
    /\ LET r == definitionCallback(o)
       IN  IF r.route = "readFile"
           THEN /\ pending' = (pending (-) SetToBag({c}))
                                (+) SetToBag({[c EXCEPT !.phase = "readFile",
                                                        !.status = r.effect.status,
                                                        !.outcome = o]})
                /\ last' = Idle
           ELSE /\ pending' = pending (-) SetToBag({c})
                /\ last' = Answered(c, Last("definition", c.doc, c.sig, c.hit, TRUE, o, r.effect,
                                            r.effect.result))
    /\ UNCHANGED <<funcDefLastIndex, text, symbolsMap, localSymbols, imports, ast, diagnostics, lintQueue,
                   scanned, followedUp, edits, queries>>
    /\ UNCHANGED <<openDocs, executing, compiling, published>>
    /\ UNCHANGED others

\* what the fs.readFile callback of call c leaves behind, r being its outcome
followUp(c, r) ==
    /\ funcDefLastIndex' = r.lastIndex
    /\ last' = Answered(c, Last("definition", c.doc, c.sig, c.hit, TRUE, c.outcome,
                                Effect(c.status, r.settled, FALSE, r.result), r.result))
    /\ IF r.scans
       THEN /\ followedUp' = followedUp \cup {c.doc}
            /\ scanned' = Scanned("followUp", c.doc)
       ELSE UNCHANGED <<followedUp, scanned>>

\* fs.readFile of the module delivers
ReadFileDone(c, read) ==
    /\ BagIn(c, pending)
    /\ c.phase = "readFile"
    /\ followUp(c, readFileCallback(read, c.sig, c.outcome.json[1].path, funcDefLastIndex))
    /\ pending' = pending (-) SetToBag({c})
    /\ UNCHANGED <<text, symbolsMap, localSymbols, imports, ast, diagnostics, lintQueue, edits, queries>>
    /\ UNCHANGED <<openDocs, executing, compiling, published>>
    /\ UNCHANGED others

\* connection.onCompletion -> autocomplete (server.ts, lines 308-337) -> getCompletions
GetCompletions(d, prefix) ==
    /\ d \in openDocs
    /\ queries > 0
    /\ queries' = queries - 1
    /\ pending' = pending (+) SetToBag({Call("completion", d, NoSig, FALSE, prefix,
                                       completionParameters(imports[d], prefix, getRelativePath(d)))})
    /\ last' = Idle
    /\ UNCHANGED <<funcDefLastIndex, text, symbolsMap, localSymbols, imports, ast, diagnostics, lintQueue,
                   scanned, followedUp, edits>>
    /\ UNCHANGED <<openDocs, executing, compiling, published>>
    /\ UNCHANGED others

\* connection.onDocumentSymbol (server.ts, lines 352-360) -> getDocumentSymbols
GetDocumentSymbols(d) ==
    /\ queries > 0
    /\ queries' = queries - 1
    /\ LET reply == ItemsResult(IF d \in openDocs THEN getDocumentSymbols(d) ELSE <<>>)
       IN  last' = Last("symbols", d, NoSig, FALSE, FALSE, NoOutcome,
                        Effect(<<>>, TRUE, FALSE, reply), reply)
    /\ UNCHANGED <<funcDefLastIndex, text, symbolsMap, localSymbols, imports, ast, diagnostics, lintQueue,
                   pending, scanned, followedUp, edits>>
    /\ UNCHANGED <<openDocs, executing, compiling, published>>
    /\ UNCHANGED others

\* the response to a completion request arrives; autocomplete answers the client
CompletionResponse(c, o) ==
    /\ BagIn(c, pending)
    /\ c.op = "completion"
    /\ LET d == c.doc
           r == completionsCallback(o, symbolsMap[d], localSymbols[d])
       IN  /\ symbolsMap' = [symbolsMap EXCEPT ![d] = r.map]
           /\ last' = Answered(c, Last("completion", d, NoSig, FALSE, TRUE, o, r.effect,
                           IF r.effect.settled THEN autocomplete(r.effect.result) ELSE Unsettled))
           /\ scanned' = IF r.map # symbolsMap[d] THEN Scanned("merge", d) ELSE scanned
    /\ pending' = pending (-) SetToBag({c})
    /\ UNCHANGED <<funcDefLastIndex, text, localSymbols, imports, ast, diagnostics, lintQueue,
                   followedUp, edits, queries>>
    /\ UNCHANGED <<openDocs, executing, compiling, published>>
    /\ UNCHANGED others

\* the parser delivers a tree without or with warnings, delivers nothing, or throws
ParseOutcomes == {"tree", "warnings", "nothing", "throws"}

Next ==
    \/ \E d \in Docs, t \in DocTexts : Lint(d, t)
    \/ \E i \in 1..MaxLints, parse \in ParseOutcomes : LintParse(i, parse)
    \/ \E d \in Docs, sig \in Sigs \cup {NoSig} : GetHover(d, sig)
    \/ \E c \in BagToSet(pending), o \in Outcomes : HoverResponse(c, o)
    \/ \E d \in Docs, sig \in Sigs \cup {NoSig} : GotoDefinition(d, sig)
    \/ \E c \in BagToSet(pending), o \in Outcomes : DefinitionResponse(c, o)
    \/ \E c \in BagToSet(pending), read \in FileReads : ReadFileDone(c, read)
    \/ \E d \in Docs, prefix \in Prefixes : GetCompletions(d, prefix)
    \/ \E c \in BagToSet(pending), o \in Outcomes : CompletionResponse(c, o)

Spec == Init /\ [][Next]_vars

\* the same machine with the budget the scanner's claims need
ScanSpec == ScanInit /\ [][Next]_vars

\* runs in which a document is edited again, also while a request is in flight
EditInit == Start(EditEdits, EditQueries)

EditSpec == EditInit /\ [][Next]_vars

\* runs in which a document is queried twice
RepeatInit == Start(RepeatEdits, RepeatQueries)

RepeatSpec == RepeatInit /\ [][Next]_vars

\* the scanner applied to one generated source text per run: a document is opened with
\* the text and linted
SourceInit == Start(1, 0)

SourceNext ==
    \/ edits > 0 /\ \E d \in Docs, t \in SourceTexts : Lint(d, t)
    \/ \E i \in 1..MaxLints, parse \in ParseOutcomes : LintParse(i, parse)

SourceSpec == SourceInit /\ [][SourceNext]_vars

\* the requests a document with generated imports sends: the document is opened, linted
\* and queried once
ScopeInit == Start(1, 1)

ScopeNext ==
    \/ edits > 0 /\ \E d \in Docs, t \in ScopeTexts : Lint(d, t)
    \/ \E i \in 1..MaxLints, parse \in ParseOutcomes : LintParse(i, parse)
    \/ \E d \in Docs, sig \in ScopeSigs : GetHover(d, sig)
    \/ \E d \in Docs, sig \in ScopeSigs : GotoDefinition(d, sig)
    \/ \E d \in Docs, prefix \in Prefixes : GetCompletions(d, prefix)

ScopeSpec == ScopeInit /\ [][ScopeNext]_vars

\* documents that are opened, edited and closed while commands and queries arrive; the
\* responses to the queries act on the AnalyzedDocument alone and are left out
LifeInit == Start(LifeEdits, LifeQueries)

LifeNext ==
    \/ \E d \in Docs, t \in DocTexts : Lint(d, t)
    \/ \E i \in 1..MaxLints, parse \in ParseOutcomes : LintParse(i, parse)
    \/ \E d \in Docs : Close(d)
    \/ \E d \in Docs, t \in DocTexts : ExecuteCommand(d, t)
    \/ \E e \in executing : ExecuteResume(e)
    \/ \E d \in Docs, sig \in Sigs : GetHover(d, sig)
    \/ \E d \in Docs, sig \in Sigs : GotoDefinition(d, sig)
    \/ \E d \in Docs, prefix \in Prefixes : GetCompletions(d, prefix)

LifeSpec == LifeInit /\ [][LifeNext]_vars

\* lint runs followed to the end: edits, the parser run, the compile request and its
\* response, the diagnostics published
CompileInit == Start(CompileEdits, 0)

CompileNext ==
    \/ \E d \in Docs, t \in DocTexts : Lint(d, t)
    \/ \E i \in 1..MaxLints, parse \in ParseOutcomes : LintRequest(i, parse)
    \/ \E run \in BagToSet(compiling), outcome \in CompileOutcomes : CompileResponse(run, outcome)

CompileSpec == CompileInit /\ [][CompileNext]_vars

\* the outline of a document next to edits and completions; the parser delivers a tree
OutlineInit == Start(OutlineEdits, OutlineQueries)

OutlineNext ==
    \/ \E d \in Docs, t \in DocTexts : Lint(d, t)
    \/ \E i \in 1..MaxLints : LintParse(i, "tree")
    \/ \E d \in Docs, prefix \in Prefixes : GetCompletions(d, prefix)
    \/ \E c \in BagToSet(pending), o \in Outcomes : CompletionResponse(c, o)
    \/ \E d \in Docs : GetDocumentSymbols(d)

OutlineSpec == OutlineInit /\ [][OutlineNext]_vars

\* the sync program next to a language server that is idle
SyncInit == Start(0, 0)

SyncSpec == SyncInit /\ [][SyncNext]_vars

\* the extension, activated in a workspace of any of the folders
ClientInit ==
    /\ ServerStart(0, 0)
    /\ SyncStart
    /\ \E folders \in SUBSET Folders : ClientStart(folders)
    /\ InstallStart
    /\ CursorStart

ClientSpec == ClientInit /\ [][ClientNext]_vars

\* the deploy command next to a language server that is idle
InstallInit == Start(0, 0)

InstallSpec == InstallInit /\ [][InstallNext]_vars

\* a completion request at any offset of any text
PrefixInit ==
    /\ ServerStart(0, 0)
    /\ SyncStart
    /\ ClientStart({})
    /\ InstallStart
    /\ \E txt \in TextsUpTo(MaxText) : \E offset \in 0..Len(txt) :
          cursor = Cursor(txt, offset, <<>>, FALSE)

PrefixSpec == PrefixInit /\ [][PrefixNext]_vars

----------------------------------------------------------------------------
(* Properties *)

\* the hover getHover builds from a stored symbol: its signature in bold, then its
\* documentation if it has any
StoredHover(symbol) ==
    Result("hover",
           IF symbol.documentation = "" THEN "**" \o symbol.signature \o "**"
           ELSE "**" \o symbol.signature \o "**" \o "\n\n" \o symbol.documentation,
           "", 0, 0, <<>>)

Succeeded(o) == ~Failed(o) /\ o.parses

\* C1: a getHover asked about a call whose name#arity key is in the document's symbol
\* table answers with a hover built from the stored symbol alone (signature plus
\* documentation); it makes no remote request and never calls the status callback.
C1_LocalHoverHit ==
    (last.op = "hover" /\ last.hit) =>
        /\ ~last.roundTrip
        /\ last.status = <<>>
        /\ last.settled
        /\ last.result = StoredHover(MapGet(symbolsMap[last.doc], SigKey(last.sig)))

C1_Witness ==
    /\ last.op = "hover" /\ last.hit /\ ~last.roundTrip
    /\ last.result.kind = "hover"
    /\ MapGet(symbolsMap[last.doc], SigKey(last.sig)).documentation # ""

\* C2: a getHover for a signature absent from the symbol table, answered by the remote
\* service with success and one item, resolves to a populated hover, and the status
\* callback is called exactly once, with true.
C2_RemoteHoverOneItem ==
    (last.op = "hover" /\ ~last.hit /\ last.roundTrip /\ Succeeded(last.outcome)
        /\ Len(last.outcome.json) = 1) =>
        /\ last.settled
        /\ last.result.kind = "hover"
        /\ last.result.value # ""
        /\ last.status = <<TRUE>>

C2_Witness ==
    /\ last.op = "hover" /\ ~last.hit /\ last.roundTrip /\ Succeeded(last.outcome)
    /\ Len(last.outcome.json) = 1
    /\ last.result.kind = "hover"

\* C3: when the remote service is unreachable (transport error or non-200 status) during
\* getCompletions, the call resolves to a failure marker, the status callback gets one
\* notification, false, no exception escapes, and the server's completion handler answers
\* with an empty list.
C3_CompletionsUnreachable ==
    (last.op = "completion" /\ Failed(last.outcome)) =>
        /\ last.settled
        /\ ~last.threw
        /\ last.result.kind = "responseError"
        /\ last.status = <<FALSE>>
        /\ last.reply = ItemsResult(<<>>)

C3_Witness ==
    /\ last.op = "completion" /\ Failed(last.outcome) /\ ~last.outcome.error
    /\ last.reply = ItemsResult(<<>>)

\* C4: after analyze(text) returns on a document whose history holds analyze calls and
\* completion merges only, the symbol table holds exactly the keys a scan of text
\* produces.
C4_TableReplaced ==
    (scanned.op = "analyze" /\ scanned.doc \notin followedUp) =>
        MapKeys(symbolsMap[scanned.doc]) = MapKeys(FreshScan(text[scanned.doc]))

\* C5: two analyze calls in a row with the same text on a document leave the same symbol
\* and import tables.
C5_RepeatedAnalyze ==
    [][\A d \in Docs :
        (/\ scanned.op = "analyze" /\ scanned.doc = d
         /\ scanned'.op = "analyze" /\ scanned'.doc = d
         /\ edits' = edits - 1
         /\ text'[d] = text[d]) =>
            /\ symbolsMap'[d] = symbolsMap[d]
            /\ imports'[d] = imports[d]]_vars

\* C6: the symbol table analyze(text) leaves is the one a fresh scanner produces for
\* text, whatever ran before on this or another document.
C6_AnalyzeIsPure ==
    scanned.op = "analyze" => symbolsMap[scanned.doc] = FreshScan(text[scanned.doc])

\* C7: every remote round trip of getHover, gotoDefinition or getCompletions gives the
\* status callback exactly one notification, true on success and false on failure, also
\* when the item list of a successful answer is empty.
C7_OneStatusPerRoundTrip ==
    (last.roundTrip /\ (Failed(last.outcome) \/ last.outcome.parses)) =>
        last.status = <<~Failed(last.outcome)>>

\* C8: for getHover and gotoDefinition a transport error or a non-200 response resolves
\* the call to null, with the status reported as false and no exception.
C8_FailureResolvesNull ==
    (last.op \in {"hover", "definition"} /\ last.roundTrip /\ Failed(last.outcome)) =>
        /\ last.settled
        /\ ~last.threw
        /\ last.result = Null
        /\ last.status = <<FALSE>>

C8_Witness ==
    /\ last.op = "definition" /\ last.roundTrip /\ ~last.outcome.error
    /\ last.outcome.statusCode # 200
    /\ last.result = Null

\* C9: a gotoDefinition call whose callbacks have all run has completed, with a Location
\* or with null: it is not left pending when the item list is empty, the module is
\* unreadable or the re-scan finds no definition.
C9_DefinitionCompletes ==
    (last.op = "definition" /\ (~last.roundTrip \/ Failed(last.outcome) \/ last.outcome.parses)) =>
        last.settled /\ last.result.kind \in {"location", "null"}

\* C10: a getHover call whose callback has run has completed, with a Hover or with null:
\* it is not left pending when the remote item list is empty.
C10_HoverCompletes ==
    (last.op = "hover" /\ (~last.roundTrip \/ Failed(last.outcome) \/ last.outcome.parses)) =>
        last.settled /\ last.result.kind \in {"hover", "null"}

\* the units of txt that are declaration headers
Declarations(txt) == {i \in 1..Len(txt) : txt[i].k = "decl"}

\* the commas between unit i and the parenthesis that closes the parameter list, those
\* inside nested parentheses not counted
RECURSIVE SeparatorsFrom(_, _, _)
SeparatorsFrom(txt, i, depth) ==
    IF i > Len(txt) THEN 0
    ELSE IF txt[i].k = "rp"
         THEN IF depth = 1 THEN 0 ELSE SeparatorsFrom(txt, i + 1, depth - 1)
    ELSE IF txt[i].k = "lp" THEN SeparatorsFrom(txt, i + 1, depth + 1)
    ELSE IF txt[i].k = "comma" /\ depth = 1 THEN 1 + SeparatorsFrom(txt, i + 1, depth)
    ELSE SeparatorsFrom(txt, i + 1, depth)

\* the number of parameters of the definition whose header is unit i
DeclaredArity(txt, i) ==
    IF i < Len(txt) /\ txt[i + 1].k = "rp" THEN 0 ELSE 1 + SeparatorsFrom(txt, i + 1, 1)

DeclaredKey(txt, i) == txt[i].v \o "#" \o ToString(DeclaredArity(txt, i))

DeclaredKeys(txt) == {DeclaredKey(txt, i) : i \in Declarations(txt)}

\* unit i of txt is followed by the units of toks
Follows(txt, i, toks) == i + Len(toks) <= Len(txt) /\ SubSeq(txt, i + 1, i + Len(toks)) = toks

\* C12: scanning `declare function local:add($a, $b) { $a + $b };` yields exactly one
\* symbol, with key local:add#2, signature `local:add($a, $b)` and snippet
\* `local:add(${1:$a}, ${2:$b})`.
C12_ScanLocalAdd ==
    (scanned.op = "analyze" /\ text[scanned.doc] = TextLocalAdd) =>
        /\ Len(symbolsMap[scanned.doc]) = 1
        /\ symbolsMap[scanned.doc][1].key = "local:add#2"
        /\ symbolsMap[scanned.doc][1].val.signature = "local:add($a, $b)"
        /\ symbolsMap[scanned.doc][1].val.snippet = "local:add(${1:$a}, ${2:$b})"

\* C13: for a text of N well-formed function definitions with pairwise distinct name and
\* arity, the scan leaves exactly N entries, keyed by the name#arity of the definitions.
C13_OneEntryPerDefinition ==
    (scanned.op = "analyze"
        /\ Cardinality(DeclaredKeys(text[scanned.doc])) = Cardinality(Declarations(text[scanned.doc]))) =>
        /\ Len(symbolsMap[scanned.doc]) = Cardinality(Declarations(text[scanned.doc]))
        /\ MapKeys(symbolsMap[scanned.doc]) = DeclaredKeys(text[scanned.doc])

ThreeParams == <<VarTok("$a"), COMMA, SP, VarTok("$b"), COMMA, SP, VarTok("$c"), RP>>

\* the snippet stored under key is snippet
StoredSnippet(map, key, snippet) == MapHas(map, key) /\ MapGet(map, key).snippet = snippet

\* C14: a definition with the parameter list ($a, $b, $c) is recorded with arity 3 and a
\* snippet of 3 numbered placeholders; one with the empty parameter list () is recorded
\* with arity 0 and the snippet name().
C14_ArityAndSnippet ==
    scanned.op = "analyze" =>
        \A i \in Declarations(text[scanned.doc]) :
            /\ Follows(text[scanned.doc], i, ThreeParams) =>
                   StoredSnippet(symbolsMap[scanned.doc], text[scanned.doc][i].v \o "#3",
                       text[scanned.doc][i].v \o "(${1:\\$a}, ${2:\\$b}, ${3:\\$c})")
            /\ Follows(text[scanned.doc], i, <<RP>>) =>
                   StoredSnippet(symbolsMap[scanned.doc], text[scanned.doc][i].v \o "#0",
                       text[scanned.doc][i].v \o "()")

C14_Witness ==
    /\ scanned.op = "analyze"
    /\ \E i, j \in Declarations(text[scanned.doc]) :
           /\ Follows(text[scanned.doc], i, ThreeParams)
           /\ Follows(text[scanned.doc], j, <<RP>>)
    /\ Len(symbolsMap[scanned.doc]) = 2

\* the import statements of txt that have an `at` clause
AtImports(txt) == {i \in 1..Len(txt) : txt[i].k = "import" /\ txt[i].at # ""}

\* C15: the import table holds at most one Import per prefix; when a text declares a
\* prefix twice with an `at` clause, the one entry of the prefix carries the namespace
\* URI and the source path of the later declaration.
C15_LastImportWins ==
    scanned.op = "analyze" =>
        /\ \A i, j \in 1..Len(imports[scanned.doc]) :
               imports[scanned.doc][i].key = imports[scanned.doc][j].key => i = j
        /\ \A i \in AtImports(text[scanned.doc]) :
               (\A j \in AtImports(text[scanned.doc]) :
                    text[scanned.doc][j].v = text[scanned.doc][i].v => j <= i) =>
                   /\ MapHas(imports[scanned.doc], text[scanned.doc][i].v)
                   /\ MapGet(imports[scanned.doc], text[scanned.doc][i].v).uri = text[scanned.doc][i].uri
                   /\ MapGet(imports[scanned.doc], text[scanned.doc][i].v).source = text[scanned.doc][i].at

C15_Witness ==
    /\ scanned.op = "analyze"
    /\ \E i, j \in AtImports(text[scanned.doc]) :
           /\ i < j
           /\ text[scanned.doc][i].v = text[scanned.doc][j].v
           /\ text[scanned.doc][i].uri # text[scanned.doc][j].uri
    /\ Len(imports[scanned.doc]) = 1

\* C11: after a remote resolution for a signature has succeeded with an item of that
\* name#arity, a second query for the same signature on the same document, with no edit
\* in between, is answered without another remote request.
C11_NoRepeatedRoundTrip ==
    [][(/\ last.op \in {"hover", "definition"}
        /\ last.roundTrip /\ Succeeded(last.outcome)
        /\ \E j \in 1..Len(last.outcome.json) : last.outcome.json[j].name = SigKey(last.sig)
        /\ last.settled /\ last.result # Null) =>
           \A c \in BagToSet(pending') :
               (c.op = "hover" /\ c.doc = last.doc /\ c.sig = last.sig) =>
                   CopiesIn(c, pending') <= CopiesIn(c, pending)]_vars

\* C16: a successful getCompletions answer is the local symbol list followed by the remote
\* item list, nothing removed: its length is the number of local symbols plus the number
\* of remote items, also when a local and a remote entry have the same label.
C16_LocalThenRemote ==
    (last.op = "completion" /\ Succeeded(last.outcome)) =>
        /\ last.settled
        /\ last.reply.kind = "items"
        /\ Len(last.reply.items) = Len(localSymbols[last.doc]) + Len(last.outcome.json)
        /\ \A i \in 1..Len(localSymbols[last.doc]) :
               /\ last.reply.items[i].label = localSymbols[last.doc][i].signature
               /\ last.reply.items[i].data = localSymbols[last.doc][i].name
        /\ \A j \in 1..Len(last.outcome.json) :
               /\ last.reply.items[Len(localSymbols[last.doc]) + j].label = last.outcome.json[j].text
               /\ last.reply.items[Len(localSymbols[last.doc]) + j].data = last.outcome.json[j].name

C16_Witness ==
    /\ last.op = "completion" /\ Succeeded(last.outcome)
    /\ \E i \in 1..Len(localSymbols[last.doc]) : \E j \in 1..Len(last.outcome.json) :
           /\ localSymbols[last.doc][i].signature = last.outcome.json[j].text
           /\ last.reply.items[i].label = last.reply.items[Len(localSymbols[last.doc]) + j].label

\* no lint run of document d waits for the parser
Linted(d) == \A i \in 1..Len(lintQueue) : lintQueue[i].doc # d

\* C17: when the parser threw or delivered nothing for the current text of a document,
\* getHover and gotoDefinition answer null.
C17_NoTreeNoAnswer ==
    (/\ last.op \in {"hover", "definition"} /\ ~last.roundTrip
     /\ text[last.doc] # <<>> /\ Linted(last.doc)
     /\ ast[last.doc] # text[last.doc]) =>
        last.result = Null

\* the tables of document d
Tables(d) == <<symbolsMap[d], localSymbols[d], imports[d], diagnostics[d]>>

\* C18: an analyze, a completion merge or a definition follow-up on document a leaves the
\* symbol table, local symbol list, import table and diagnostics of every other document
\* unchanged.
C18_DocumentsIndependent ==
    [][\A a \in Docs :
          (\/ \E t \in DocTexts : Lint(a, t)
           \/ \E c \in BagToSet(pending), o \in Outcomes : c.doc = a /\ CompletionResponse(c, o)
           \/ \E c \in BagToSet(pending), read \in FileReads : c.doc = a /\ ReadFileDone(c, read)) =>
              \A b \in Docs \ {a} :
                  /\ symbolsMap'[b] = symbolsMap[b]
                  /\ localSymbols'[b] = localSymbols[b]
                  /\ imports'[b] = imports[b]
                  /\ diagnostics'[b] = diagnostics[b]]_vars

C18_Witness ==
    /\ scanned.op = "merge"
    /\ \E b \in Docs \ {scanned.doc} : symbolsMap[b] # <<>> /\ imports[b] # <<>>

\* C19: once the items of a response that arrives after a later edit are merged, every
\* definition found by the latest scan is still stored under its name#arity key with its
\* scanned data.
C19_MergeKeepsScannedEntries ==
    (last.op = "completion" /\ last.edited /\ Succeeded(last.outcome)) =>
        \A i \in 1..Len(localSymbols[last.doc]) :
            /\ MapHas(symbolsMap[last.doc], localSymbols[last.doc][i].name)
            /\ MapGet(symbolsMap[last.doc], localSymbols[last.doc][i].name) = localSymbols[last.doc][i]

\* C20: the answer to a getCompletions request that was in flight while an edit changed
\* the text is built from the state at completion time: its local part is the local
\* symbol list of the text after the edit.
C20_AnswerFromCurrentState ==
    (last.op = "completion" /\ last.edited /\ Succeeded(last.outcome)) =>
        /\ last.settled
        /\ last.result.kind = "items"
        /\ Len(last.result.items) >= Len(localSymbols[last.doc])
        /\ \A i \in 1..Len(localSymbols[last.doc]) :
               /\ last.result.items[i].label = localSymbols[last.doc][i].signature
               /\ last.result.items[i].data = localSymbols[last.doc][i].name
               /\ last.result.items[i].insertText = localSymbols[last.doc][i].snippet

C20_Witness ==
    /\ last.op = "completion" /\ last.edited /\ Succeeded(last.outcome)
    /\ localSymbols[last.doc] # <<>>
    /\ last.result.items[1].data = localSymbols[last.doc][1].name


\* the parameter list opened by the header at unit i is never closed
NeverClosed(txt, i) == findMatchingParen(txt, i) = -1

\* the table holds an entry for name, whatever its arity
Recorded(map, txt, name) == \E k \in 0..Len(txt) : MapHas(map, name \o "#" \o ToString(k))

\* C28: a definition whose parameter list is never closed is skipped: the scan completes,
\* the table has no entry for that definition, and the other definitions of the text
\* are recorded.
C28_UnclosedDefinitionSkipped ==
    scanned.op = "analyze" =>
        \A i \in Declarations(text[scanned.doc]) :
            IF NeverClosed(text[scanned.doc], i)
            THEN ~Recorded(symbolsMap[scanned.doc], text[scanned.doc], text[scanned.doc][i].v)
            ELSE Recorded(symbolsMap[scanned.doc], text[scanned.doc], text[scanned.doc][i].v)

\* C29: the parameter list is split on top-level commas only, so each definition whose
\* list is closed is recorded under its name and the number of parameters it declares:
\* a comma nested in a parameter's type starts no new parameter, a non-empty list
\* without a comma is one parameter, the empty list is zero parameters.
C29_TopLevelCommasOnly ==
    scanned.op = "analyze" =>
        \A i \in Declarations(text[scanned.doc]) :
            ~NeverClosed(text[scanned.doc], i) =>
                MapHas(symbolsMap[scanned.doc], DeclaredKey(text[scanned.doc], i))

\* (x, $b): the first parameter has no $name to extract
SkippedFirst == <<WordTok("x"), COMMA, SP, VarTok("$b"), RP>>

\* C30: snippet placeholders are numbered from 1 without a gap, whatever parameters are
\* skipped: a definition with the parameter list (x, $b), whose only extractable
\* parameter is $b, has a snippet with the one placeholder 1.
C30_PlaceholdersSequential ==
    scanned.op = "analyze" =>
        \A i \in Declarations(text[scanned.doc]) :
            Follows(text[scanned.doc], i, SkippedFirst) =>
                StoredSnippet(symbolsMap[scanned.doc], text[scanned.doc][i].v \o "#2",
                    text[scanned.doc][i].v \o "(${1:\\$b})")


\* the requests for operation op whose document has not changed since they were sent
Sent(ops) == {c \in BagToSet(pending) : c.op \in ops /\ ~c.edited}

\* the imports a request names, as pairs of prefix and namespace URI
Scope(c) == {<<c.params.mprefix[k], c.params.uri[k]>> : k \in 1..Len(c.params.mprefix)}

\* the imports of a table that are module imports
ModuleImports(imps) == {i \in 1..Len(imps) : ~imps[i].val.isJava}

\* C24: a hover or definition request for prefix:localName, where the import table has
\* an entry for the prefix, names no import but that one; a request for a name without
\* prefix names the module imports of the whole table; every request carries the
\* name#arity of the call and the base path settings.path/relPath.
C24_SearchScope ==
    \A c \in Sent({"hover", "definition"}) :
        /\ c.params.signature = SigName(c.sig) \o "#" \o ToString(c.sig.arity)
        /\ c.params.base = SettingsPath \o "/" \o getRelativePath(c.doc)
        /\ (Len(c.sig.parts) = 2 /\ MapHas(imports[c.doc], c.sig.parts[1])) =>
               /\ Scope(c) \subseteq {<<c.sig.parts[1], MapGet(imports[c.doc], c.sig.parts[1]).uri>>}
               /\ ~MapGet(imports[c.doc], c.sig.parts[1]).isJava =>
                      /\ Len(c.params.mprefix) = 1
                      /\ c.params.source = <<MapGet(imports[c.doc], c.sig.parts[1]).source>>
        /\ Len(c.sig.parts) = 1 =>
               /\ Scope(c) = {<<imports[c.doc][i].key, imports[c.doc][i].val.uri>> :
                                  i \in ModuleImports(imports[c.doc])}
               /\ Len(c.params.mprefix) = Cardinality(ModuleImports(imports[c.doc]))

C24_Witness ==
    \E c \in Sent({"hover", "definition"}) :
        /\ c.sig.parts = <<"x", "run">>
        /\ Len(imports[c.doc]) = 2
        /\ c.params.mprefix = <<"x">>

\* C25: the scope of a hover or definition request never names a java: import, also
\* when the prefix of the queried name is bound to one.
C25_NoJavaInScope ==
    \A c \in Sent({"hover", "definition"}) :
        /\ \A k \in 1..Len(c.params.source) : c.params.source[k] \notin JavaSources
        /\ \A i \in 1..Len(imports[c.doc]) :
               imports[c.doc][i].val.isJava =>
                   <<imports[c.doc][i].key, imports[c.doc][i].val.uri>> \notin Scope(c)

C25_Witness ==
    \E c \in Sent({"hover", "definition"}) :
        /\ c.sig.parts = <<"j", "now">>
        /\ MapHas(imports[c.doc], "j")
        /\ MapGet(imports[c.doc], "j").isJava
        /\ c.params.mprefix = <<>>

\* C26: the scope of a completion request names every import of the document, the
\* java: imports together with the module imports.
C26_CompletionScopeHasJava ==
    \A c \in Sent({"completion"}) :
        \A i \in 1..Len(imports[c.doc]) :
            <<imports[c.doc][i].key, imports[c.doc][i].val.uri>> \in Scope(c)


\* C27: a response with the success status whose body is missing or is no valid item list
\* is treated as a failure by getHover, gotoDefinition and getCompletions: the call
\* yields null (no items for a completion), the connection is reported down, and no
\* exception leaves the callback.
C27_InvalidBodyIsFailure ==
    (last.op \in {"hover", "definition", "completion"} /\ last.roundTrip
        /\ ~Failed(last.outcome) /\ ~last.outcome.parses) =>
        /\ ~last.threw
        /\ last.settled
        /\ last.status = <<FALSE>>
        /\ last.reply \in {Null, ItemsResult(<<>>)}


\* the module text txt defines name with arity parameters
Defines(txt, name, arity) ==
    \E i \in Declarations(txt) : txt[i].v = name /\ DeclaredArity(txt, i) = arity

\* C22: the definition follow-up filters the re-scan of the module on the name and on the
\* arity: when the module read defines the requested name with other arities only, the
\* call yields no location.
C22_FollowUpFiltersArity ==
    [][\A c \in BagToSet(pending), read \in FileReads :
           (ReadFileDone(c, read) /\ ~Defines(read.content, SigName(c.sig), c.sig.arity)) =>
               last'.result.kind # "location"]_vars


\* the entry of sig in map has a source location
Located(tree, map, sig) == Hit(tree, map, sig) /\ MapGet(map, SigKey(sig)).hasLocation

\* C23 as stated: whenever the name#arity key of the call is in the document's table,
\* whether the entry came from the local scan or from an earlier remote merge,
\* gotoDefinition answers with a location from the table and sends no request.
C23_LocalFirst ==
    [][\A d \in Docs, sig \in Sigs :
           (GotoDefinition(d, sig) /\ Hit(ast[d], symbolsMap[d], sig)) =>
               pending' = pending /\ last'.result.kind = "location"]_vars

\* C23, amended: gotoDefinition answers from the table, without a request, exactly when
\* the key of the call is in the table with an entry that has a source location, as the
\* entries of the local scan have; when the key is absent, or its entry has no location
\* as the entries merged from a remote response, it sends a remote request.
C23_LocalFirstWithLocation ==
    [][\A d \in Docs, sig \in Sigs :
           (GotoDefinition(d, sig) /\ ast[d] # NoAst) =>
               IF Located(ast[d], symbolsMap[d], sig)
               THEN /\ pending' = pending
                    /\ last'.result.kind = "location"
                    /\ last'.result.uri = d
                    /\ last'.result.start = MapGet(symbolsMap[d], SigKey(sig)).start
               ELSE /\ \E c \in BagToSet(pending') :
                           /\ c.op = "definition" /\ c.doc = d /\ c.sig = sig /\ c.phase = "request"
                           /\ pending' = pending (+) SetToBag({c})
                    /\ last'.op = "none"]_vars

C23_Witness ==
    \E c \in BagToSet(pending) :
        /\ c.op = "definition" /\ c.phase = "request" /\ c.hit /\ ~c.edited
        /\ MapHas(symbolsMap[c.doc], SigKey(c.sig))
        /\ ~MapGet(symbolsMap[c.doc], SigKey(c.sig)).hasLocation


\* the entries of a table, whatever their order
Entries(map) == {map[i] : i \in 1..Len(map)}

\* the item lists of the responses that deliver one
ItemLists == {o.json : o \in {x \in Outcomes : ~Failed(x) /\ x.parses}}

\* C21: merging remote items into the table by symbol name is idempotent and independent
\* of the order: when a response R1 has been merged, merging R1 again leaves the table
\* as it is, and merging a response R2 after R1 gives the table that merging R2 first
\* and R1 second gives.
C21_MergeIdempotentAnyOrder ==
    [][\A c \in BagToSet(pending), o \in Outcomes :
           (CompletionResponse(c, o) /\ ~Failed(o) /\ o.parses) =>
               /\ mergeItems(symbolsMap'[c.doc], o.json) = symbolsMap'[c.doc]
               /\ \A R2 \in ItemLists :
                      Entries(mergeItems(symbolsMap'[c.doc], R2))
                          = Entries(mergeItems(mergeItems(symbolsMap[c.doc], R2), o.json))]_vars


\* C31: an AnalyzedDocument exists for a URI only while the document is open: a document
\* that is not open, because it was closed or was never opened, has no entry in
\* analyzedDocuments, whatever commands and requests have been processed.
C31_AnalyzedOnlyWhileOpen ==
    \A d \in Docs : d \notin openDocs => text[d] = NoText


\* no lint run of document d is under way
LintDone(d) ==
    /\ \A i \in 1..Len(lintQueue) : lintQueue[i].doc # d
    /\ \A run \in BagToSet(compiling) : run.doc # d

\* C32: when the lint runs of a document have come to an end, also when they overlapped,
\* the diagnostics last published for it are those of the latest text: no published
\* diagnostic was computed from an earlier text of the document.
C32_PublishedFromLatestText ==
    \A d \in Docs :
        LintDone(d) => \A k \in 1..Len(published[d]) : published[d][k].text = text[d]


\* a lint run of document d, of a text that is not empty, is suspended between its
\* analyze step and its parse step
LintSuspended(d) ==
    \E i \in 1..Len(lintQueue) :
        lintQueue[i].doc = d /\ ~lintQueue[i].detached /\ lintQueue[i].text # <<>>

\* C33: a getHover or gotoDefinition served while a lint run of the document is suspended
\* between its analyze step and its parse step finds a syntax tree derived from the text
\* the symbol table was derived from: not the tree of the previous text, and not no tree.
C33_TreeAndTableOfOneText ==
    [][\A d \in Docs, sig \in Sigs :
          ((GetHover(d, sig) \/ GotoDefinition(d, sig)) /\ LintSuspended(d))
              => ast[d] = text[d]]_vars


\* the outline items are the symbols of the list, one for one and in order, each with
\* its span
Outline(items, symbols) ==
    /\ Len(items) = Len(symbols)
    /\ \A i \in 1..Len(symbols) :
          /\ symbols[i].hasLocation
          /\ items[i].name = symbols[i].signature
          /\ items[i].start = symbols[i].start
          /\ items[i].end = symbols[i].end

\* C34: getDocumentSymbols returns exactly the definitions found by the most recent
\* analyze of the document, each with its source span: analyze makes the list of what its
\* scan put in the symbol table, a completion response that merges remote items into the
\* table leaves the list and its spans unchanged, and the outline answered is that list,
\* with no remote (location-less) entry.
C34_OutlineIsLatestScan ==
    [][/\ \A d \in Docs, t \in DocTexts :
             Lint(d, t) => localSymbols'[d] = MapValues(symbolsMap'[d])
       /\ \A c \in BagToSet(pending), o \in Outcomes :
             CompletionResponse(c, o) => localSymbols' = localSymbols
       /\ \A d \in openDocs :
             GetDocumentSymbols(d) => Outline(last'.result.items, localSymbols[d])]_vars

\* an outline of two definitions was answered after a completion response had merged a
\* remote item into the symbol table of the document
C34_Witness ==
    /\ last.op = "symbols"
    /\ Len(last.result.items) = 2
    /\ \E i \in 1..Len(symbolsMap[last.doc]) : ~symbolsMap[last.doc][i].val.hasLocation


\* the indices in sent of the uploads of path p
Uploads(p) == {i \in 1..Len(sent) : sent[i].kind = "store" /\ sent[i].path = p}

\* the last index of a non-empty set of indices
Latest(S) == CHOOSE i \in S : \A j \in S : j <= i

\* C35: when a watched file changed twice in quick succession, the uploads take effect in
\* the order of the file events: once the uploads of the file have completed, all stored,
\* the target collection holds the content of the latest change.
C35_UploadsInEventOrder ==
    \A p \in Paths \ Dirs :
        (/\ Cardinality(Uploads(p)) >= 2
         /\ Uploads(p) \cap (requests \cup failed) = {}
         /\ \A i \in 1..Len(sent) : sent[i].path = p => sent[i].kind \in {"store", "chmod"})
            => collection[p] = sent[Latest(Uploads(p))].content

\* the initial query succeeded: status 200 or 201
Succeeded200(o) == ~o.error /\ (o.status = 200 \/ o.status = 201)

\* C36: the watcher is started only after the initial query has succeeded: while the
\* query is in flight, and for good once it has failed, there is no watcher and no
\* upload, delete or create-collection request has been sent.
C36_WatcherAfterStartup ==
    ~Succeeded200(startup) => (~watcher /\ sent = <<>> /\ requests = {})

\* the initial query failed with a status of the 2xx range other than 200 and 201, and
\* the watched directory was changed afterwards with nothing sent
C36_Witness ==
    /\ startup = SyncOutcome(FALSE, 204, "ok")
    /\ changes = 2
    /\ ~watcher
    /\ sent = <<>>


\* the workspace folders that lie in no other workspace folder
OuterMost == {f \in workspaceFolders : \A g \in workspaceFolders : StartsWith(f, g) => g = f}

\* C37: at any time there is at most one language client per outermost workspace folder:
\* the running clients of the folders in it, the folder itself included, are at most
\* one, and the map holds the running clients, of workspace folders only, so that the
\* client of a removed folder is stopped and its entry deleted.
C37_OneClientPerOuterMostFolder ==
    /\ \A o \in OuterMost :
          Cardinality({c \in running : c.key # NoFolder /\ StartsWith(c.key, o)}) <= 1
    /\ clients = {c \in running : c.key # NoFolder}
    /\ \A c \in clients : c.key \in workspaceFolders


\* C38: if the upload of the helper package fails (transport error or a status other than
\* 201), installXar rejects and the install-and-deploy query is not sent: the query of
\* an install has been sent only when its upload was answered with success.
C38_QueryOnlyAfterUpload ==
    \A i \in 1..Len(installs) :
        /\ installs[i].sent => ~UploadFailed(installs[i].upload)
        /\ (installs[i].upload # Unanswered /\ UploadFailed(installs[i].upload))
              => installs[i].promise = "rejected"


\* the longest run of prefix characters that ends immediately before the offset
MaximalRun(txt, offset) ==
    LET runs == {n \in 0..offset : \A k \in (offset - n + 1)..offset : PrefixChar(txt[k])}
    IN  SubSeq(txt, offset - (CHOOSE n \in runs : \A m \in runs : m <= n) + 1, offset)

\* C39: the completion prefix is the maximal run of characters from [0-9A-Za-z:$] that
\* ends immediately before the cursor offset, for every cursor position, a run that
\* starts at offset 0 included; it is empty when the character before the cursor is
\* outside that set.
C39_PrefixIsMaximalRun ==
    cursor.done => cursor.prefix = MaximalRun(cursor.text, cursor.offset)

====
